---- MODULE Spec2Model ----
(***************************************************************************)
(* The retrieval-augmented chat pipeline of fetch-pdf-chat: the chat route *)
(* (POST /api/chat), the streaming read loop of ChatInterface, the         *)
(* NAVIGATE/HIGHLIGHT command parser and the viewer state it drives.       *)
(*                                                                         *)
(* A text is a sequence of characters, each character a one-character      *)
(* string; the regular expressions of the source are matched character by  *)
(* character.                                                              *)
(***************************************************************************)
EXTENDS Integers, Sequences, FiniteSets, TLC

(***************************************************************************)
(* Characters                                                              *)
(***************************************************************************)
Digits == <<"0","1","2","3","4","5","6","7","8","9">>

UpperCase == <<"A","B","C","D","E","F","G","H","I","J","K","L","M",
               "N","O","P","Q","R","S","T","U","V","W","X","Y","Z">>

LowerCase == <<"a","b","c","d","e","f","g","h","i","j","k","l","m",
               "n","o","p","q","r","s","t","u","v","w","x","y","z">>

DigitSet == {Digits[i] : i \in 1..10}

DigitValues == [c \in DigitSet |-> (CHOOSE i \in 1..10 : Digits[i] = c) - 1]

\* \d of a JavaScript regular expression
IsDigit(c) == c \in DigitSet

DigitVal(c) == DigitValues[c]

\* \s of a JavaScript regular expression, on the characters of the model
IsSpace(c) == c \in {" ", "\t", "\n", "\r"}

\* [\d.] of the HIGHLIGHT pattern
IsDigitOrDot(c) == IsDigit(c) \/ c = "."

UpperCaseSet == {UpperCase[i] : i \in 1..26}

ToLowerCase == [c \in UpperCaseSet |-> LowerCase[CHOOSE i \in 1..26 : UpperCase[i] = c]]

\* the /i flag: characters are compared after case folding
FoldCase(c) == IF c \in UpperCaseSet THEN ToLowerCase[c] ELSE c

Spaces(n) == [i \in 1..n |-> " "]

(***************************************************************************)
(* Regular expression pieces.  Every piece takes the text and the position *)
(* to match at and gives the position after the match; 0 is "no match".    *)
(* Adjacent pieces of both patterns accept disjoint character classes, so  *)
(* the greedy match is the only match: backtracking never finds another.   *)
(***************************************************************************)
\* a literal, compared under /i
MatchLiteral(s, i, lit) ==
    IF /\ i + Len(lit) - 1 <= Len(s)
       /\ \A k \in 1..Len(lit) : FoldCase(s[i + k - 1]) = FoldCase(lit[k])
    THEN i + Len(lit)
    ELSE 0

\* \s* : the position after the longest run of white space from i
RECURSIVE SkipSpaces(_, _)
SkipSpaces(s, i) ==
    IF i <= Len(s) /\ IsSpace(s[i]) THEN SkipSpaces(s, i + 1) ELSE i

\* \d* : the position after the longest run of digits from i
RECURSIVE SkipDigits(_, _)
SkipDigits(s, i) ==
    IF i <= Len(s) /\ IsDigit(s[i]) THEN SkipDigits(s, i + 1) ELSE i

\* [\d.]* : the position after the longest run of digits and dots from i
RECURSIVE SkipDigitsOrDots(_, _)
SkipDigitsOrDots(s, i) ==
    IF i <= Len(s) /\ IsDigitOrDot(s[i]) THEN SkipDigitsOrDots(s, i + 1) ELSE i

PageKeyword == <<"p","a","g","e">>

\* the position after the keyword, a, if it matched, and the white space
\* after it
AfterPageKeyword(s, i, a) == IF a # 0 THEN SkipSpaces(s, a) ELSE i

\* a mutant of SkipPageKeyword: the pattern without its (?:page\s*)? group
SkipPageKeyword_Absent(s, i) == i

\* (?:page\s*)? : the optional keyword and the white space after it
SkipPageKeyword(s, i) == AfterPageKeyword(s, i, MatchLiteral(s, i, PageKeyword))

\* the comma at a, and the white space after it
AfterComma(s, a) ==
    IF a <= Len(s) /\ s[a] = "," THEN SkipSpaces(s, a + 1) ELSE 0

\* a mutant of SkipComma: the pattern with , in place of \s*,\s*
SkipComma_NoSpaces(s, i) ==
    IF i <= Len(s) /\ s[i] = "," THEN i + 1 ELSE 0

\* \s*,\s* : a comma with optional white space on both sides
SkipComma(s, i) == AfterComma(s, SkipSpaces(s, i))

NoMatch == [found |-> FALSE, groups |-> <<>>]

\* a capture group (...+) from c to before d: no match if it is empty
Group(s, c, d) == IF d = c THEN <<>> ELSE <<SubSeq(s, c, d - 1)>>

NavigateKeyword == <<"N","A","V","I","G","A","T","E",":">>

HighlightKeyword == <<"H","I","G","H","L","I","G","H","T",":">>

\* (\d+) at c, which ends the NAVIGATE pattern
NavigatePage(s, c) == Group(s, c, SkipDigits(s, c))

MatchOf(groups, n) ==
    IF Len(groups) = n THEN [found |-> TRUE, groups |-> groups] ELSE NoMatch

\* \s*(?:page\s*)?(\d+) after the keyword, which ended before a
NavigateAfterKeyword(s, a) ==
    IF a = 0 THEN NoMatch
    ELSE MatchOf(NavigatePage(s, SkipPageKeyword(s, SkipSpaces(s, a))), 1)

\* /NAVIGATE:\s*(?:page\s*)?(\d+)/i tried at position i
NavigateMatchAt(s, i) == NavigateAfterKeyword(s, MatchLiteral(s, i, NavigateKeyword))

\* n times \s*,\s*([\d.]+) from position i: the groups, fewer than n if the
\* text does not match
RECURSIVE Fields(_, _, _)
RECURSIVE FieldFrom(_, _, _)
RECURSIVE FieldTo(_, _, _, _)
Fields(s, i, n) ==
    IF n = 0 THEN <<>> ELSE FieldFrom(s, SkipComma(s, i), n)

FieldFrom(s, c, n) ==
    IF c = 0 THEN <<>> ELSE FieldTo(s, c, SkipDigitsOrDots(s, c), n)

FieldTo(s, c, d, n) ==
    IF d = c THEN <<>> ELSE <<SubSeq(s, c, d - 1)>> \o Fields(s, d, n - 1)

\* (\d+) from c to before d, and the four fields after it
HighlightGroups(s, c, d) ==
    IF d = c THEN <<>> ELSE <<SubSeq(s, c, d - 1)>> \o Fields(s, d, 4)

HighlightPage(s, c) == HighlightGroups(s, c, SkipDigits(s, c))

\* \s*(?:page\s*)?(\d+) and the fields after the keyword, which ended before a
HighlightAfterKeyword(s, a) ==
    IF a = 0 THEN NoMatch
    ELSE MatchOf(HighlightPage(s, SkipPageKeyword(s, SkipSpaces(s, a))), 5)

\* /HIGHLIGHT:\s*(?:page\s*)?(\d+)\s*,\s*([\d.]+)\s*,\s*([\d.]+)\s*,\s*([\d.]+)\s*,\s*([\d.]+)/i
\* tried at position i
HighlightMatchAt(s, i) ==
    HighlightAfterKeyword(s, MatchLiteral(s, i, HighlightKeyword))

\* the least position of a non-empty set of positions
Leftmost(at) == CHOOSE i \in at : \A k \in at : i <= k

NavigateMatchAmong(s, at) ==
    IF at = {} THEN NoMatch ELSE NavigateMatchAt(s, Leftmost(at))

\* a mutant of MatchStarts: the patterns anchored at the start of a line
MatchStarts_LineStarts(s) == {i \in 1..Len(s) : i = 1 \/ s[i - 1] = "\n"}

\* neither pattern has an anchor: a match may start at every position
MatchStarts(s) == 1..Len(s)

\* content.match(/NAVIGATE.../i): no g flag, so the leftmost match alone
NavigateMatch(s) ==
    NavigateMatchAmong(s, {i \in MatchStarts(s) : NavigateMatchAt(s, i).found})

HighlightMatchAmong(s, at) ==
    IF at = {} THEN NoMatch ELSE HighlightMatchAt(s, Leftmost(at))

\* content.match(/HIGHLIGHT.../i): no g flag, so the leftmost match alone
HighlightMatch(s) ==
    HighlightMatchAmong(s, {i \in MatchStarts(s) : HighlightMatchAt(s, i).found})

(***************************************************************************)
(* parseInt and parseFloat.  A number is a decimal m / 10^e without        *)
(* trailing zeros in the fraction, or NaN.                                 *)
(***************************************************************************)
RECURSIVE DigitsValue(_)
DigitsValue(d) ==
    IF d = <<>> THEN 0
    ELSE 10 * DigitsValue(SubSeq(d, 1, Len(d) - 1)) + DigitVal(d[Len(d)])

RECURSIVE StripTrailingZeros(_)
StripTrailingZeros(d) ==
    IF d # <<>> /\ d[Len(d)] = "0"
    THEN StripTrailingZeros(SubSeq(d, 1, Len(d) - 1))
    ELSE d

NaN == [nan |-> TRUE, m |-> 0, e |-> 0]

Decimal(m, e) == [nan |-> FALSE, m |-> m, e |-> e]

\* parseInt(t) on a run of digits (group 1 of either pattern is \d+)
ParseInt(t) == DigitsValue(SubSeq(t, 1, SkipDigits(t, 1) - 1))

\* the number with the integer digits int and the fraction digits kept
DecimalOf(int, kept) == Decimal(DigitsValue(int \o kept), Len(kept))

\* the digits after the dot, if a dot follows the first n characters of t
FractionDigits(t, n) ==
    IF n < Len(t) /\ t[n + 1] = "."
    THEN SubSeq(t, n + 2, SkipDigits(t, n + 2) - 1)
    ELSE <<>>

FloatOf(int, frac) ==
    IF int = <<>> /\ frac = <<>> THEN NaN
    ELSE DecimalOf(int, StripTrailingZeros(frac))

\* t starts with n digits
FloatAfterDigits(t, n) == FloatOf(SubSeq(t, 1, n), FractionDigits(t, n))

\* parseFloat(t): the longest prefix that is a decimal literal, NaN if none
ParseFloat(t) == FloatAfterDigits(t, SkipDigits(t, 1) - 1)

(***************************************************************************)
(* parseToolCalls: what it passes to onHighlight and to onNavigateToPage.  *)
(* A call is <<argument>>, no call is <<>>.                                *)
(***************************************************************************)
HighlightedContent == "Highlighted content"

\* the highlight made of the groups of a HIGHLIGHT match
HighlightOf(groups) ==
    [pageNumber |-> ParseInt(groups[1]),
     bbox |-> [x0 |-> ParseFloat(groups[2]), y0 |-> ParseFloat(groups[3]),
               x1 |-> ParseFloat(groups[4]), y1 |-> ParseFloat(groups[5])],
     text |-> HighlightedContent]

\* if (highlightMatch) onHighlight([...]); if (navigateMatch) onNavigateToPage(...)
ToolCalls(highlightMatch, navigateMatch) ==
    [highlight |->
        IF highlightMatch.found THEN << <<HighlightOf(highlightMatch.groups)>> >>
        ELSE <<>>,
     navigate |->
        IF navigateMatch.found THEN <<ParseInt(navigateMatch.groups[1])>>
        ELSE <<>>]

ParseToolCalls(content) == ToolCalls(HighlightMatch(content), NavigateMatch(content))

NoToolCalls == [highlight |-> <<>>, navigate |-> <<>>]

(***************************************************************************)
(* The viewer state of the page that hosts ChatInterface and PDFViewer.    *)
(***************************************************************************)
\* a mutant of HandleHighlight: the new highlights appended to the old ones
HandleHighlight_Append(old, newHighlights) == old \o newHighlights

\* handleHighlight: setHighlights(newHighlights)
HandleHighlight(old, newHighlights) == newHighlights

\* handleNavigateToPage: setCurrentPage(pageNumber)
HandleNavigateToPage(old, pageNumber) == pageNumber

\* handleClearHighlights: setHighlights([])
HandleClearHighlights(old) == <<>>

\* the highlights after the calls of one parseToolCalls
HighlightsAfter(old, calls) ==
    IF calls.highlight # <<>> THEN HandleHighlight(old, calls.highlight[1]) ELSE old

\* the current page after the calls of one parseToolCalls
CurrentPageAfter(old, calls) ==
    IF calls.navigate # <<>> THEN HandleNavigateToPage(old, calls.navigate[1]) ELSE old

(***************************************************************************)
(* State                                                                   *)
(***************************************************************************)
VARIABLES
    \* the chat route, POST /api/chat
    srvPc,           \* where the handler of the turn stands
    req,             \* the request: [user, messages, documentId, conversationId]
    dbMessages,      \* the Message table, in creation order
    chunkStore,      \* the Chunk table: id -> [documentId, pageNumber, embedding]
    queryVector,     \* the embedding of the query
    relevantChunks,  \* the rows of the vector search
    modelOut,        \* the whole output of the model for the turn
    upstream,        \* result.textStream: the output not yet generated
    fullResponse,    \* let fullResponse
    response,        \* the HTTP response: [status, kind]
    wire,            \* the chunks enqueued on the response body, not yet read
    streamEnd,       \* the response body: "open", "closed" or "errored"
    \* ChatInterface
    cliPc,           \* where handleFormSubmit stands
    props,           \* [user, documentId, conversationId, isEnabled]: session, props
    input,           \* the input field
    messages,        \* the transcript state
    closure,         \* the messages the running handleFormSubmit closed over
    isLoading,
    mounted,         \* whether ChatInterface is mounted
    \* the host page of ChatInterface and PDFViewer
    highlights,
    currentPage,
    \* the text handed to parseToolCalls when it is checked on its own
    parseInput,
    inputKind,
    \* history: what was passed to the viewer callbacks
    hlCalls,         \* every argument onHighlight was called with
    navCalls,        \* every argument onNavigateToPage was called with
    lastCalls,       \* the calls of the latest dispatch
    repeated,        \* whether the latest dispatch repeated the one before it
    \* lib/auth.ts and lib/session.ts
    clock,           \* Date.now(), in ticks
    sessions,        \* the Session table: rows [token, userId, expiresAt]
    cookie,          \* the session_token cookie of the browser
    verified,        \* history: the latest verifyToken, [token, ok, at]
    loggedOut,       \* history: the tokens a logout has answered 200 for
    \* hooks/useSpeechRecognition and the microphone of ChatInterface
    voiceText,          \* text of the hook
    isListening,        \* isListening of the hook
    error,              \* error of the hook: the kind of message shown, or "none"
    shouldBeListening,  \* shouldBeListeningRef.current
    recognition,        \* the recogniser: "inactive", "started", "stopping", "errored"
    recEvent,           \* history: the latest call of the hook and whether it started the recogniser
    timeouts,           \* the pending callbacks of handleMicRelease, with what they closed over
    inFlight,           \* the texts of the chat requests that have not ended
    \* utils/speechSynthesis
    utteranceQueue,     \* utteranceQueue of the SpeechSynthesisQueue
    isSpeaking,         \* isSpeaking
    currentUtterance,   \* currentUtterance
    sentenceBuffer,     \* sentenceBuffer
    synth,              \* the utterances the synthesizer holds, the spoken one first
    pendingCallbacks,   \* cancelled utterances whose callback has not run yet
    handed,             \* history: the utterances handed to synth.speak since the latest speak()
    nextUtterance       \* the number of utterances constructed

srvVars == <<srvPc, req, dbMessages, chunkStore, queryVector,
             relevantChunks, modelOut, upstream, fullResponse, response, wire,
             streamEnd>>

cliVars == <<cliPc, props, input, messages, closure, isLoading, mounted>>

viewVars == <<highlights, currentPage>>

parseVars == <<parseInput, inputKind>>

histVars == <<hlCalls, navCalls, lastCalls, repeated>>

sessionVars == <<clock, sessions, cookie, verified, loggedOut>>

hookVars == <<voiceText, isListening, error, shouldBeListening, recognition, recEvent>>

voiceVars == <<hookVars, timeouts, inFlight>>

speechVars == <<utteranceQueue, isSpeaking, currentUtterance, sentenceBuffer, synth,
                pendingCallbacks, handed, nextUtterance>>

\* what the chat turn and the parser leave alone
sideVars == <<sessionVars, voiceVars, speechVars>>

vars == <<srvVars, cliVars, viewVars, parseVars, sideVars, histVars>>

\* the viewer and the history of the calls, as one value
View ==
    [highlights |-> highlights, currentPage |-> currentPage, hlCalls |-> hlCalls,
     navCalls |-> navCalls, lastCalls |-> lastCalls, repeated |-> repeated]

\* the view after the callbacks have been called as `calls` says
ViewAfter(v, calls) ==
    [highlights |-> HighlightsAfter(v.highlights, calls),
     currentPage |-> CurrentPageAfter(v.currentPage, calls),
     hlCalls |-> v.hlCalls \cup {calls.highlight[k] : k \in 1..Len(calls.highlight)},
     navCalls |-> v.navCalls \cup {calls.navigate[k] : k \in 1..Len(calls.navigate)},
     lastCalls |-> IF calls = NoToolCalls THEN v.lastCalls ELSE calls,
     repeated |-> (calls # NoToolCalls /\ calls = v.lastCalls)]

SetView(v) ==
    /\ highlights' = v.highlights
    /\ currentPage' = v.currentPage
    /\ hlCalls' = v.hlCalls
    /\ navCalls' = v.navCalls
    /\ lastCalls' = v.lastCalls
    /\ repeated' = v.repeated

Dispatch(calls) == SetView(ViewAfter(View, calls))

(***************************************************************************)
(* parseToolCalls on its own: the texts it is applied to.                  *)
(***************************************************************************)
\* the largest number of spaces on either side of the NAVIGATE page number
MaxNavSpaces == 2

\* the largest number of spaces on either side of a HIGHLIGHT comma
MaxCommaSpaces == 1

PageKeywords == {<<>>, <<"p","a","g","e">>, <<"P","a","g","e">>, <<"P","A","G","E">>}

\* prose before and after a command, on lines of its own
TextsBefore == {<<>>, <<"S","e","e",".","\n">>}

TextsAfter == {<<>>, <<"\n","O","k",".">>}

NavigateKeywords ==
    {NavigateKeyword, <<"n","a","v","i","g","a","t","e",":">>,
     <<"N","a","v","i","g","a","t","e",":">>}

\* NAVIGATE: 7 with 0..MaxNavSpaces spaces and an optional page keyword
NavigateInputs ==
    {before \o nav \o Spaces(a) \o kw \o Spaces(b) \o <<"7">> \o after :
        nav \in NavigateKeywords, a \in 0..MaxNavSpaces, kw \in PageKeywords,
        b \in 0..MaxNavSpaces, before \in TextsBefore, after \in TextsAfter}

\* HIGHLIGHT: 3,10.5,20,300.25,400 with w[2k-1] spaces before and w[2k] spaces
\* after the k-th comma
HighlightText(w) ==
    HighlightKeyword \o <<" ", "3">>
        \o Spaces(w[1]) \o <<",">> \o Spaces(w[2]) \o <<"1","0",".","5">>
        \o Spaces(w[3]) \o <<",">> \o Spaces(w[4]) \o <<"2","0">>
        \o Spaces(w[5]) \o <<",">> \o Spaces(w[6]) \o <<"3","0","0",".","2","5">>
        \o Spaces(w[7]) \o <<",">> \o Spaces(w[8]) \o <<"4","0","0">>

HighlightInputs ==
    {HighlightText(w) : w \in [1..8 -> 0..MaxCommaSpaces]}
    \cup {before \o HighlightText([k \in 1..8 |-> 0]) \o after :
            before \in TextsBefore, after \in TextsAfter}

\* what the HIGHLIGHT inputs spell: page 3, bbox 10.5, 20, 300.25, 400
ExpectedHighlight ==
    [pageNumber |-> 3,
     bbox |-> [x0 |-> Decimal(105, 1), y0 |-> Decimal(20, 0),
               x1 |-> Decimal(30025, 2), y1 |-> Decimal(400, 0)],
     text |-> HighlightedContent]

\* fields of a command: two numbers, and four texts that are no number
WellFormedFields == {<<"1","0">>, <<"1",".","5">>}

MalformedFields == {<<".">>, <<"1",".","2",".","3">>, <<"x">>, <<>>}

\* HIGHLIGHT commands with page 3 and four fields of which one at least is no
\* number, HIGHLIGHT commands with fields missing, NAVIGATE commands whose
\* page is no number
MalformedInputs ==
    {HighlightKeyword \o <<" ", "3", ",">> \o f[1] \o <<",">> \o f[2]
            \o <<",">> \o f[3] \o <<",">> \o f[4] :
        f \in {g \in [1..4 -> WellFormedFields \cup MalformedFields] :
                    \E k \in 1..4 : g[k] \in MalformedFields}}
    \cup {HighlightKeyword \o <<" ", "3", ",", "1", "0", ",", "2", "0">>,
          HighlightKeyword \o <<" ", "3", ",", "1", "0", ",", "2", "0", ",", "3", "0">>,
          HighlightKeyword \o <<" ", "3">>}
    \cup {NavigateKeyword \o <<" ">> \o f : f \in MalformedFields}

\* a HIGHLIGHT command and no NAVIGATE command:
\* "It's described on page 4.\nHIGHLIGHT: 4,100,200,500,250\n"
HighlightOnlyText ==
    <<"I","t","'","s"," ","d","e","s","c","r","i","b","e","d"," ","o","n"," ",
      "p","a","g","e"," ","4",".","\n",
      "H","I","G","H","L","I","G","H","T",":"," ","4",",","1","0","0",",",
      "2","0","0",",","5","0","0",",","2","5","0","\n">>

HighlightOnlyExpected ==
    [pageNumber |-> 4,
     bbox |-> [x0 |-> Decimal(100, 0), y0 |-> Decimal(200, 0),
               x1 |-> Decimal(500, 0), y1 |-> Decimal(250, 0)],
     text |-> HighlightedContent]

\* commands in the middle of a line of prose: "Now NAVIGATE: 7 please.",
\* "(see HIGHLIGHT: 3,10.5,20,300.25,400).", ...
EmbeddedCommands ==
    {NavigateKeyword \o <<" ","7">>,
     NavigateKeyword \o <<" ","p","a","g","e"," ","7">>,
     HighlightText([k \in 1..8 |-> 0])}

ProseBefore == {<<"N","o","w"," ">>, <<"(","s","e","e"," ">>}

ProseAfter == {<<" ","p","l","e","a","s","e",".">>, <<".">>, <<")",".">>}

EmbeddedTexts(command) ==
    {before \o command \o after : before \in ProseBefore, after \in ProseAfter}

EmbeddedInputs == UNION {EmbeddedTexts(command) : command \in EmbeddedCommands}

\* the command on a line of its own, between two lines of prose
OnOwnLine(command) ==
    <<"S","e","e",".","\n">> \o command \o <<"\n","O","k",".">>

ParseInputs ==
    {[kind |-> "navigate", text |-> t] : t \in NavigateInputs}
    \cup {[kind |-> "embedded", text |-> t] : t \in EmbeddedInputs}
    \cup {[kind |-> "highlight", text |-> t] : t \in HighlightInputs}
    \cup {[kind |-> "malformed", text |-> t] : t \in MalformedInputs}
    \cup {[kind |-> "highlightOnly", text |-> HighlightOnlyText]}

(***************************************************************************)
(* The state before anything has happened                                  *)
(***************************************************************************)
NoRequest == [user |-> "", messages |-> <<>>, documentId |-> "", conversationId |-> ""]

NoResponse == [status |-> 0, kind |-> "none"]

ServerIdle ==
    /\ srvPc = "idle"
    /\ req = NoRequest
    /\ queryVector = 0
    /\ relevantChunks = <<>>
    /\ modelOut = <<>>
    /\ upstream = <<>>
    /\ fullResponse = <<>>
    /\ response = NoResponse
    /\ wire = <<>>
    /\ streamEnd = "open"

\* useState([]) for the highlights, useState(1) for the current page
ViewerInit ==
    /\ highlights = <<>>
    /\ currentPage = 1

HistoryInit ==
    /\ hlCalls = {}
    /\ navCalls = {}
    /\ lastCalls = NoToolCalls
    /\ repeated = FALSE

NoToken == [userId |-> "", iat |-> 0]

NoVerification == [token |-> NoToken, ok |-> FALSE, at |-> 0]

\* nobody has signed in
SessionsInit ==
    /\ clock = 0
    /\ sessions = {}
    /\ cookie = NoToken
    /\ verified = NoVerification
    /\ loggedOut = {}

NoRecEvent == [call |-> "none", started |-> FALSE]

\* the hook after its effect has run: nothing heard, the recogniser inactive
VoiceInit ==
    /\ voiceText = <<>>
    /\ isListening = FALSE
    /\ error = "none"
    /\ shouldBeListening = FALSE
    /\ recognition = "inactive"
    /\ recEvent = NoRecEvent
    /\ timeouts = <<>>
    /\ inFlight = <<>>

NoUtterance == [id |-> 0, text |-> <<>>]

\* the constructor of SpeechSynthesisQueue, and a silent synthesizer
SpeechInit ==
    /\ utteranceQueue = <<>>
    /\ isSpeaking = FALSE
    /\ currentUtterance = NoUtterance
    /\ sentenceBuffer = <<>>
    /\ synth = <<>>
    /\ pendingCallbacks = <<>>
    /\ handed = <<>>
    /\ nextUtterance = 0

SideInit == SessionsInit /\ VoiceInit /\ SpeechInit

(***************************************************************************)
(* SpecParse: an assistant message with the text parseInput is on screen.  *)
(* parseToolCalls is applied to it, its pills are clicked, the highlights  *)
(* are cleared.  cliPc is the latest of these events.                      *)
(***************************************************************************)
InitParse ==
    /\ ServerIdle
    /\ dbMessages = <<>>
    /\ chunkStore = <<>>
    /\ \E in \in ParseInputs :
        /\ parseInput = in.text
        /\ inputKind = in.kind
    /\ cliPc = "shown"
    /\ props = [user |-> "u1", documentId |-> "d1", conversationId |-> "c1",
                isEnabled |-> TRUE]
    /\ input = <<>>
    /\ messages = <<[id |-> "m1", role |-> "assistant", content |-> parseInput]>>
    /\ closure = <<>>
    /\ isLoading = FALSE
    /\ mounted = TRUE
    /\ ViewerInit
    /\ HistoryInit
    /\ SideInit

\* parseToolCalls(content) on the text on screen
ParseStep ==
    /\ cliPc \in {"shown", "parsed", "clicked", "cleared"}
    /\ Dispatch(ParseToolCalls(parseInput))
    /\ cliPc' = "parsed"
    /\ UNCHANGED <<srvVars, props, mounted, input, messages, closure, isLoading, parseVars, sideVars>>

\* renderMessageContent and handleNavigateClick: the split pattern has the g
\* flag, so every NAVIGATE command of the text is a pill; a click calls
\* onNavigateToPage alone
ClickNavigatePill ==
    /\ cliPc \in {"shown", "parsed", "clicked", "cleared"}
    /\ \E i \in 1..Len(parseInput) :
        /\ NavigateMatchAt(parseInput, i).found
        /\ Dispatch([highlight |-> <<>>,
                     navigate |-> <<ParseInt(NavigateMatchAt(parseInput, i).groups[1])>>])
    /\ cliPc' = "clicked"
    /\ UNCHANGED <<srvVars, props, mounted, input, messages, closure, isLoading, parseVars, sideVars>>

\* handleHighlightClick(parseInt(pageNumber), {x0: parseFloat(x0), ...})
HighlightClickCalls(groups) ==
    [highlight |-> << <<HighlightOf(groups)>> >>,
     navigate |-> <<ParseInt(groups[1])>>]

\* renderMessageContent and handleHighlightClick: every HIGHLIGHT command of
\* the text is a pill; a click calls onNavigateToPage, then onHighlight
ClickHighlightPill ==
    /\ cliPc \in {"shown", "parsed", "clicked", "cleared"}
    /\ \E i \in 1..Len(parseInput) :
        /\ HighlightMatchAt(parseInput, i).found
        /\ Dispatch(HighlightClickCalls(HighlightMatchAt(parseInput, i).groups))
    /\ cliPc' = "clicked"
    /\ UNCHANGED <<srvVars, props, mounted, input, messages, closure, isLoading, parseVars, sideVars>>

\* the "Clear all highlights" button of PDFViewer, shown while there are
\* highlights, and handleClearHighlights
ClearHighlightsOnScreen ==
    /\ cliPc \in {"shown", "parsed", "clicked", "cleared"}
    /\ highlights # <<>>
    /\ highlights' = HandleClearHighlights(highlights)
    /\ lastCalls' = NoToolCalls
    /\ repeated' = FALSE
    /\ cliPc' = "cleared"
    /\ UNCHANGED <<srvVars, props, mounted, input, messages, closure, isLoading, parseVars, sideVars,
                   currentPage, hlCalls, navCalls>>

NextParse ==
    \/ ParseStep
    \/ ClickNavigatePill
    \/ ClickHighlightPill
    \/ ClearHighlightsOnScreen

SpecParse == InitParse /\ [][NextParse]_vars

(***************************************************************************)
(* The data of the chat pipeline                                           *)
(***************************************************************************)
\* getCurrentUser() gives null
NoUser == ""

\* the Conversation table: the owner and the document of each conversation
Conversations ==
    [c \in {"c1", "c2"} |->
        IF c = "c1" THEN [userId |-> "u1", documentId |-> "d1"]
                    ELSE [userId |-> "u2", documentId |-> "d2"]]

\* a mutant of FindConversation: where: {id}, the owner is not looked at
FindConversation_AnyOwner(conversationId, userId) ==
    IF conversationId \in DOMAIN Conversations
    THEN <<Conversations[conversationId]>>
    ELSE <<>>

\* prisma.conversation.findFirst({where: {id, userId}, include: {document}})
FindConversation(conversationId, userId) ==
    IF conversationId \in DOMAIN Conversations
       /\ Conversations[conversationId].userId = userId
    THEN <<Conversations[conversationId]>>
    ELSE <<>>

\* the number of rows of the Chunk table
NumChunks == 7

\* LIMIT 5 of the vector search
RetrieveLimit == 5

\* the embedding of a query text: a function of the text.  Chunk i has the
\* embedding i, the query texts below have the embeddings 0..NumChunks + 1
EmbeddingOf(text) == Len(text) - 1

UserQueries == {[k \in 1..n |-> "?"] : n \in 1..(NumChunks + 2)}

\* the chunk tables: every assignment of the chunks to the two documents
ChunkStores ==
    {[i \in 1..NumChunks |-> [documentId |-> doc[i], pageNumber |-> i, embedding |-> i]] :
        doc \in [1..NumChunks -> {"d1", "d2"}]}

\* the chunk table of the streaming specification: odd chunks in d1
DefaultChunkStore ==
    [i \in 1..NumChunks |->
        [documentId |-> IF i % 2 = 1 THEN "d1" ELSE "d2", pageNumber |-> i,
         embedding |-> i]]

\* a chunk table in which the document d1 has no chunk
OtherDocumentStore ==
    [i \in 1..NumChunks |-> [documentId |-> "d2", pageNumber |-> i, embedding |-> i]]

\* embedding <=> queryVector: the distance of two embeddings, smaller is closer
Distance(embedding, q) == IF embedding >= q THEN embedding - q ELSE q - embedding

ChunkRow(store, i, q) ==
    [id |-> i, pageNumber |-> store[i].pageNumber,
     distance |-> Distance(store[i].embedding, q)]

\* ORDER BY distance LIMIT k over the chunks S: every order of the rows that
\* ORDER BY allows (rows at the same distance come in any order)
RECURSIVE OrderedRows(_, _, _, _)
OrderedRows(store, S, q, k) ==
    IF S = {} \/ k = 0 THEN {<<>>}
    ELSE UNION {{<<ChunkRow(store, c, q)>> \o rest :
                    rest \in OrderedRows(store, S \ {c}, q, k - 1)} :
                c \in {c \in S : \A o \in S :
                        Distance(store[c].embedding, q) <= Distance(store[o].embedding, q)}}

\* a mutant of VectorSearch: the query without its WHERE clause
VectorSearch_AnyDocument(store, documentId, q) ==
    OrderedRows(store, DOMAIN store, q, RetrieveLimit)

\* SELECT ... FROM "Chunk" WHERE "documentId" = ... ORDER BY embedding <=> q LIMIT 5:
\* the results the query may give
VectorSearch(store, documentId, q) ==
    OrderedRows(store, {i \in DOMAIN store : store[i].documentId = documentId}, q,
                RetrieveLimit)

\* the query of the turn
UserQuery ==
    <<"W","h","y","?">>

\* input.trim()
RECURSIVE TrimStart(_)
TrimStart(text) ==
    IF text # <<>> /\ IsSpace(Head(text)) THEN TrimStart(Tail(text)) ELSE text

RECURSIVE TrimEnd(_)
TrimEnd(text) ==
    IF text # <<>> /\ IsSpace(text[Len(text)])
    THEN TrimEnd(SubSeq(text, 1, Len(text) - 1))
    ELSE text

Trim(text) == TrimEnd(TrimStart(text))

\* the texts of the input field: blank, and "Why?" between spaces
BlankInput == <<" ">>

UserInputs == {BlankInput, <<" ">> \o UserQuery \o <<" ">>}

\* the transcripts a conversation may already hold when the turn starts
PriorTranscripts ==
    {<<>>,
     <<[role |-> "user", content |-> <<"H","i">>],
       [role |-> "assistant", content |-> <<"H","e","l","l","o",".">>]>>}

\* the outputs of the model: "Answer.\nNAVIGATE: 2\nDone." and
\* "NAVIGATE: 2 NAVIGATE: 3"
AnswerNavigateDone ==
    <<"A","n","s","w","e","r",".","\n","N","A","V","I","G","A","T","E",":",
      " ","2","\n","D","o","n","e",".">>

TwoNavigates ==
    <<"N","A","V","I","G","A","T","E",":"," ","2"," ","N","A","V","I","G","A",
      "T","E",":"," ","3">>

ModelOutputs == {AnswerNavigateDone, TwoNavigates}

\* the longest fragment result.textStream yields
MaxFragment == 4

\* the most chunks enqueued on the response body and not yet read
MaxWire == 2

(***************************************************************************)
(* The wire protocol                                                       *)
(***************************************************************************)
FramePrefix == <<"0", ":", "\"">>

\* `0:"${chunk}"\n`
Frame(chunk) == FramePrefix \o chunk \o <<"\"", "\n">>

\* `d:{"finishReason":"stop"}\n`
CompletionFrame ==
    <<"d",":","{","\"","f","i","n","i","s","h","R","e","a","s","o","n","\"",
      ":","\"","s","t","o","p","\"","}","\n">>

FallbackMessage ==
    <<"I"," ","u","n","d","e","r","s","t","a","n","d"," ","y","o","u","'","r",
      "e"," ","a","s","k","i","n","g"," ","a","b","o","u","t"," ","a"," ","P",
      "D","F"," ","d","o","c","u","m","e","n","t",","," ","b","u","t"," ","I",
      " ","d","o","n","'","t"," ","h","a","v","e"," ","a","c","c","e","s","s",
      " ","t","o"," ","t","h","e"," ","d","o","c","u","m","e","n","t"," ","c",
      "o","n","t","e","n","t"," ","y","e","t","."," ","P","l","e","a","s","e",
      " ","m","a","k","e"," ","s","u","r","e"," ","t","h","e"," ","P","D","F",
      " ","h","a","s"," ","b","e","e","n"," ","p","r","o","c","e","s","s","e",
      "d"," ","a","n","d"," ","t","h","e"," ","d","a","t","a","b","a","s","e",
      " ","i","s"," ","s","e","t"," ","u","p"," ","c","o","r","r","e","c","t",
      "l","y",".">>

\* the body of the fallback answer: JSON.stringify of {message, highlights: [],
\* relevantChunks: [], timestamp}, the timestamp being one ISO date
FallbackBody ==
    <<"{","\"","m","e","s","s","a","g","e","\"",":","\"">>
    \o FallbackMessage \o
    <<"\"",",","\"","h","i","g","h","l","i","g","h","t","s","\"",":","[","]",
      ",","\"","r","e","l","e","v","a","n","t","C","h","u","n","k","s","\"",
      ":","[","]",",","\"","t","i","m","e","s","t","a","m","p","\"",":","\"">>
    \o <<"2","0","2","5","-","0","1","-","0","1","T","0","0",":","0","0",":","0","0",
         ".","0","0","0","Z">> \o <<"\"", "}">>

ErrorMessageText ==
    <<"S","o","r","r","y",","," ","I"," ","e","n","c","o","u","n","t","e","r",
      "e","d"," ","a","n"," ","e","r","r","o","r","."," ","P","l","e","a","s",
      "e"," ","t","r","y"," ","a","g","a","i","n",".">>

\* chunk.split('\n')
RECURSIVE Split(_)
RECURSIVE SplitAt(_, _)
Split(text) == SplitAt(text, {k \in 1..Len(text) : text[k] = "\n"})

\* the lines of text, the newlines of which are at the positions at
SplitAt(text, at) ==
    IF at = {} THEN <<text>>
    ELSE <<SubSeq(text, 1, Leftmost(at) - 1)>>
            \o Split(SubSeq(text, Leftmost(at) + 1, Len(text)))

\* line.startsWith('0:"')
IsFragmentLine(line) ==
    Len(line) >= 3 /\ SubSeq(line, 1, 3) = FramePrefix

\* line.slice(3, -1)
FragmentOfLine(line) == SubSeq(line, 4, Len(line) - 1)

(***************************************************************************)
(* ChatInterface: handleFormSubmit                                         *)
(***************************************************************************)
\* the ids of the messages handleFormSubmit makes: Date.now() read when the
\* form is submitted, when the response has arrived, when an error is caught
UserMessageId == "user"

AssistantMessageId == "assistant"

ErrorMessageId == "error"

\* messages.find(msg => msg.id === id)?.content || ''
ContentOf(msgs, id) ==
    IF \E k \in 1..Len(msgs) : msgs[k].id = id
    THEN msgs[CHOOSE k \in 1..Len(msgs) :
                msgs[k].id = id /\ \A j \in 1..(k - 1) : msgs[j].id # id].content
    ELSE <<>>

\* prev.map(msg => msg.id === id ? {...msg, content} : msg)
WithContent(msgs, id, content) ==
    [k \in 1..Len(msgs) |->
        IF msgs[k].id = id THEN [msgs[k] EXCEPT !.content = content] ELSE msgs[k]]

\* the request body keeps the role and the content the route reads
BodyMessages(msgs) ==
    [k \in 1..Len(msgs) |-> [role |-> msgs[k].role, content |-> msgs[k].content]]

\* handleFormSubmit up to the fetch
ClientSubmit ==
    /\ cliPc = "idle"
    /\ props.isEnabled
    /\ Trim(input) # <<>>
    /\ ~isLoading
    /\ LET userMessage == [id |-> UserMessageId, role |-> "user",
                           content |-> Trim(input)]
       IN  /\ messages' = Append(messages, userMessage)
           /\ closure' = messages
           /\ req' = [user |-> props.user,
                      messages |-> BodyMessages(Append(messages, userMessage)),
                      documentId |-> props.documentId,
                      conversationId |-> props.conversationId]
    /\ input' = <<>>
    /\ isLoading' = TRUE
    /\ cliPc' = "fetching"
    /\ srvPc' = "received"
    /\ UNCHANGED <<dbMessages, chunkStore, queryVector, relevantChunks, modelOut,
                   upstream, fullResponse, response, wire, streamEnd, props, mounted,
                   viewVars, parseVars, sideVars, histVars>>

\* the catch and finally blocks: the synthetic assistant message
ClientFails ==
    /\ messages' = Append(messages, [id |-> ErrorMessageId, role |-> "assistant",
                                     content |-> ErrorMessageText])
    /\ isLoading' = FALSE
    /\ cliPc' = "done"

\* the fetch resolves: !response.ok throws, else the empty assistant message
\* is appended and the read loop starts
ClientResponse ==
    /\ cliPc = "fetching"
    /\ response.kind # "none"
    /\ IF response.status \in 200..299
       THEN /\ messages' = Append(messages, [id |-> AssistantMessageId,
                                             role |-> "assistant", content |-> <<>>])
            /\ cliPc' = "reading"
            /\ UNCHANGED isLoading
       ELSE ClientFails
    /\ UNCHANGED <<srvVars, props, mounted, input, closure, viewVars, parseVars, sideVars, histVars>>

\* one line of a read: a fragment line is appended to the assistant message
\* and parseToolCalls runs on the message
WithAssistantContent(st, content) ==
    [content |-> content, view |-> ViewAfter(st.view, ParseToolCalls(content))]

ProcessLine(st, line) ==
    IF IsFragmentLine(line)
    THEN WithAssistantContent(st, st.content \o FragmentOfLine(line))
    ELSE st

RECURSIVE ProcessLines(_, _)
ProcessLines(st, lines) ==
    IF lines = <<>> THEN st
    ELSE ProcessLines(ProcessLine(st, Head(lines)), Tail(lines))

\* the state after the setMessages updaters of one read have run
AfterRead(st) ==
    /\ messages' = WithContent(messages, AssistantMessageId, st.content)
    /\ SetView(st.view)

\* the chat is unmounted while the turn is streaming: the cleanup cancels the
\* speech and the listening; the fetch and the read loop of handleFormSubmit
\* go on as before, nothing cancels the reader or aborts the request
ChatUnmount ==
    /\ mounted
    /\ cliPc = "reading"
    /\ srvPc = "streaming"
    /\ mounted' = FALSE
    /\ UNCHANGED <<srvVars, cliPc, props, input, messages, closure, isLoading,
                   viewVars, parseVars, sideVars, histVars>>

\* reader.read() gives an enqueued chunk: decode, split, every line in turn
ClientRead ==
    /\ cliPc = "reading"
    /\ wire # <<>>
    /\ AfterRead(ProcessLines([content |-> ContentOf(messages, AssistantMessageId),
                               view |-> View],
                              Split(Head(wire))))
    /\ wire' = Tail(wire)
    /\ UNCHANGED <<srvPc, req, dbMessages, chunkStore, queryVector, relevantChunks,
                   modelOut, upstream, fullResponse, response, streamEnd,
                   cliPc, props, mounted, input, closure, isLoading, parseVars, sideVars>>

\* reader.read() gives done: the final parseToolCalls, on the content the
\* messages of the closure hold for the assistant message, then finally
ClientReadDone ==
    /\ cliPc = "reading"
    /\ wire = <<>>
    /\ streamEnd = "closed"
    /\ Dispatch(ParseToolCalls(ContentOf(closure, AssistantMessageId)))
    /\ isLoading' = FALSE
    /\ cliPc' = "done"
    /\ UNCHANGED <<srvVars, props, mounted, input, messages, closure, parseVars, sideVars>>

\* reader.read() rejects: the body has errored
ClientReadError ==
    /\ cliPc = "reading"
    /\ streamEnd = "errored"
    /\ ClientFails
    /\ UNCHANGED <<srvVars, props, mounted, input, closure, viewVars, parseVars, sideVars, histVars>>

(***************************************************************************)
(* The chat route: POST                                                    *)
(***************************************************************************)
JsonResponse(status) == [status |-> status, kind |-> "json"]

\* authentication, validation of the body, ownership of the conversation
CheckStatus(r) ==
    IF r.user = NoUser THEN 401
    ELSE IF r.messages = <<>> THEN 400
    ELSE IF r.conversationId = "" THEN 400
    ELSE IF FindConversation(r.conversationId, r.user) = <<>> THEN 404
    ELSE IF r.messages[Len(r.messages)].content = <<>> THEN 400
    ELSE 200

PostCheck ==
    /\ srvPc = "received"
    /\ IF CheckStatus(req) = 200
       THEN /\ srvPc' = "saveUser"
            /\ UNCHANGED response
       ELSE /\ srvPc' = "rejected"
            /\ response' = JsonResponse(CheckStatus(req))
    /\ UNCHANGED <<req, dbMessages, chunkStore, queryVector, relevantChunks, modelOut,
                   upstream, fullResponse, wire, streamEnd,
                   cliVars, viewVars, parseVars, sideVars, histVars>>

\* prisma.message.create of the user message
PostSaveUser ==
    /\ srvPc = "saveUser"
    /\ dbMessages' = Append(dbMessages,
            [role |-> "user", content |-> req.messages[Len(req.messages)].content,
             conversationId |-> req.conversationId])
    /\ srvPc' = "embed"
    /\ UNCHANGED <<req, chunkStore, queryVector, relevantChunks, modelOut, upstream,
                   fullResponse, response, wire, streamEnd,
                   cliVars, viewVars, parseVars, sideVars, histVars>>

\* the embedding call: the query vector, or !embeddingResponse.ok, a throw the
\* outer catch answers with 500
PostEmbed ==
    /\ srvPc = "embed"
    /\ \/ /\ queryVector' = EmbeddingOf(req.messages[Len(req.messages)].content)
          /\ srvPc' = "retrieve"
          /\ UNCHANGED response
       \/ /\ srvPc' = "embedFailed"
          /\ response' = JsonResponse(500)
          /\ UNCHANGED queryVector
    /\ UNCHANGED <<req, dbMessages, chunkStore, relevantChunks, modelOut, upstream,
                   fullResponse, wire, streamEnd,
                   cliVars, viewVars, parseVars, sideVars, histVars>>

\* a mutant of AfterSearch: a search without rows ends the turn
AfterSearch_EmptyEndsTurn(rows) == IF rows = <<>> THEN "completed" ELSE "prompt"

\* where the handler stands after the search: the rows, however many, go into
\* the prompt
AfterSearch(rows) == "prompt"

\* the vector search over the chunks of conversation.document.id, or its
\* catch: the fallback answer, a JSON body with status 200
PostRetrieve ==
    /\ srvPc = "retrieve"
    /\ \/ /\ \E rows \in VectorSearch(chunkStore,
                    Conversations[req.conversationId].documentId, queryVector) :
                /\ relevantChunks' = rows
                /\ srvPc' = AfterSearch(rows)
          /\ UNCHANGED <<response, wire, streamEnd>>
       \/ /\ srvPc' = "fallback"
          /\ response' = JsonResponse(200)
          /\ wire' = <<FallbackBody>>
          /\ streamEnd' = "closed"
          /\ UNCHANGED relevantChunks
    /\ UNCHANGED <<req, dbMessages, chunkStore, queryVector, modelOut, upstream,
                   fullResponse, cliVars, viewVars, parseVars, sideVars, histVars>>

\* the prompt, streamText, and the Response around the ReadableStream
PostStreamText ==
    /\ srvPc = "prompt"
    /\ \E out \in ModelOutputs :
        /\ modelOut' = out
        /\ upstream' = out
    /\ fullResponse' = <<>>
    /\ response' = [status |-> 200, kind |-> "stream"]
    /\ srvPc' = "streaming"
    /\ UNCHANGED <<req, dbMessages, chunkStore, queryVector, relevantChunks, wire,
                   streamEnd, cliVars, viewVars, parseVars, sideVars, histVars>>

\* a mutant of AppendChunk: fullResponse = chunk
AppendChunk_Overwrite(full, chunk) == chunk

\* fullResponse += chunk
AppendChunk(full, chunk) == full \o chunk

\* one turn of for await (const chunk of result.textStream)
StreamChunk ==
    /\ srvPc = "streaming"
    /\ upstream # <<>>
    /\ Len(wire) < MaxWire
    /\ \E n \in 1..MaxFragment :
        /\ n <= Len(upstream)
        /\ fullResponse' = AppendChunk(fullResponse, SubSeq(upstream, 1, n))
        /\ wire' = Append(wire, Frame(SubSeq(upstream, 1, n)))
        /\ upstream' = SubSeq(upstream, n + 1, Len(upstream))
    /\ UNCHANGED <<srvPc, req, dbMessages, chunkStore, queryVector, relevantChunks,
                   modelOut, response, streamEnd,
                   cliVars, viewVars, parseVars, sideVars, histVars>>

\* the text stream has ended: prisma.message.create of the assistant message
StreamPersist ==
    /\ srvPc = "streaming"
    /\ upstream = <<>>
    /\ dbMessages' = Append(dbMessages,
            [role |-> "assistant", content |-> fullResponse,
             conversationId |-> req.conversationId])
    /\ srvPc' = "persisted"
    /\ UNCHANGED <<req, chunkStore, queryVector, relevantChunks, modelOut, upstream,
                   fullResponse, response, wire, streamEnd,
                   cliVars, viewVars, parseVars, sideVars, histVars>>

\* a mutant of EnqueueCompletion: the completion frame is enqueued twice
EnqueueCompletion_Twice(queue) == queue \o <<CompletionFrame, CompletionFrame>>

\* controller.enqueue(encoder.encode(`d:{"finishReason":"stop"}\n`))
EnqueueCompletion(queue) == Append(queue, CompletionFrame)

\* prisma.conversation.update, the completion frame, controller.close()
StreamClose ==
    /\ srvPc = "persisted"
    /\ wire' = EnqueueCompletion(wire)
    /\ streamEnd' = "closed"
    /\ srvPc' = "completed"
    /\ UNCHANGED <<req, dbMessages, chunkStore, queryVector, relevantChunks, modelOut,
                   upstream, fullResponse, response,
                   cliVars, viewVars, parseVars, sideVars, histVars>>

\* a mutant of CatchStreamError: the catch block saves what was streamed
CatchStreamError_SavePartial(db, full, conversationId) ==
    Append(db, [role |-> "assistant", content |-> full,
                conversationId |-> conversationId])

\* catch (error) { console.error(...); controller.error(error) }: the Message
\* table after the catch block
CatchStreamError(db, full, conversationId) == db

\* the text stream throws, or prisma.message.create does (srvPc "streaming"),
\* or prisma.conversation.update does (srvPc "persisted"):
\* controller.error(error)
StreamFail ==
    /\ srvPc \in {"streaming", "persisted"}
    /\ dbMessages' = CatchStreamError(dbMessages, fullResponse, req.conversationId)
    /\ streamEnd' = "errored"
    /\ srvPc' = IF srvPc = "streaming" THEN "streamFailed" ELSE "updateFailed"
    /\ UNCHANGED <<req, chunkStore, queryVector, relevantChunks, modelOut,
                   upstream, fullResponse, response, wire,
                   cliVars, viewVars, parseVars, sideVars, histVars>>

(***************************************************************************)
(* Spec: one chat turn, from the form to the end of the read loop          *)
(***************************************************************************)
PriorIds == <<"m1", "m2">>

\* the page shows a conversation with its transcript; the session is of u1 or
\* of nobody, the conversation of the page is c1, c2 or missing
InitTurn(transcripts, documentIds, inputs, stores) ==
    /\ ServerIdle
    /\ chunkStore \in stores
    /\ input \in inputs
    /\ \E t \in transcripts :
        /\ dbMessages = [k \in 1..Len(t) |->
                [role |-> t[k].role, content |-> t[k].content, conversationId |-> "c1"]]
        /\ messages = [k \in 1..Len(t) |->
                [id |-> PriorIds[k], role |-> t[k].role, content |-> t[k].content]]
    /\ cliPc = "idle"
    /\ \E u \in {"u1", NoUser}, d \in documentIds, c \in {"c1", "c2", ""},
          enabled \in BOOLEAN :
        props = [user |-> u, documentId |-> d, conversationId |-> c,
                 isEnabled |-> enabled]
    /\ closure = <<>>
    /\ isLoading = FALSE
    /\ mounted = TRUE
    /\ parseInput = <<>>
    /\ inputKind = "none"
    /\ ViewerInit
    /\ HistoryInit
    /\ SideInit

Init ==
    InitTurn(PriorTranscripts, {"d1"}, UserInputs, {DefaultChunkStore, OtherDocumentStore})

Next ==
    \/ ClientSubmit
    \/ PostCheck
    \/ PostSaveUser
    \/ PostEmbed
    \/ PostRetrieve
    \/ PostStreamText
    \/ StreamChunk
    \/ StreamPersist
    \/ StreamClose
    \/ StreamFail
    \/ ClientResponse
    \/ ClientRead
    \/ ClientReadDone
    \/ ClientReadError
    \/ ChatUnmount

Spec == Init /\ [][Next]_vars

(***************************************************************************)
(* SpecRetrieval: the turn up to the vector search, over every chunk table *)
(***************************************************************************)
InitRetrieval == InitTurn({<<>>}, {"d1", "d2"}, UserQueries, ChunkStores)

NextRetrieval ==
    \/ ClientSubmit
    \/ PostCheck
    \/ PostSaveUser
    \/ PostEmbed
    \/ PostRetrieve

SpecRetrieval == InitRetrieval /\ [][NextRetrieval]_vars

(***************************************************************************)
(* Properties of the retrieval step, checked under SpecRetrieval           *)
(***************************************************************************)
\* the document of the conversation the turn runs in
ActiveDocument == Conversations[req.conversationId].documentId

\* C1: the vector search of a turn returns at most 5 chunks, each a chunk of
\* the document of the active conversation, whatever documentId the request
\* body carries, in the order of non-decreasing distance to the query vector.
RetrievalBoundedScopedSorted ==
    srvPc = "prompt" =>
        /\ Len(relevantChunks) <= RetrieveLimit
        /\ \A k \in 1..Len(relevantChunks) :
            chunkStore[relevantChunks[k].id].documentId = ActiveDocument
        /\ \A k \in 1..(Len(relevantChunks) - 1) :
            Distance(chunkStore[relevantChunks[k].id].embedding, queryVector)
                <= Distance(chunkStore[relevantChunks[k + 1].id].embedding, queryVector)

\* the search has cut its result at five rows, the body names the other
\* document, and a chunk of the other document is nearer to the query than
\* every row returned
RetrievalCutAndOtherDocumentNearer ==
    /\ srvPc = "prompt"
    /\ Len(relevantChunks) = RetrieveLimit
    /\ Cardinality({i \in DOMAIN chunkStore :
                        chunkStore[i].documentId = ActiveDocument}) > RetrieveLimit
    /\ req.documentId # ActiveDocument
    /\ \E i \in DOMAIN chunkStore :
        /\ chunkStore[i].documentId = req.documentId
        /\ \A k \in 1..Len(relevantChunks) :
            Distance(chunkStore[i].embedding, queryVector) < relevantChunks[k].distance

(***************************************************************************)
(* Properties of the turn, checked under Spec                              *)
(***************************************************************************)
\* the turn has run to its end on both sides
TurnCompleted == srvPc = "completed" /\ cliPc = "done"

\* C2: when the model output spells "Answer.\nNAVIGATE: 2\nDone.", then for
\* every cut of it into fragments, the framing of the route and the read loop
\* of the client, parseToolCalls running after each fragment, have called
\* onNavigateToPage(2) by the time the last fragment has been processed.
NavigateTwoByEndOfStream ==
    (TurnCompleted /\ modelOut = AnswerNavigateDone) => 2 \in navCalls

\* C3: every well-formed command of a complete assistant text, several
\* NAVIGATE commands with different pages included, has been dispatched at
\* least once by the time streaming completes.
EveryCommandDispatchedByEndOfStream ==
    (TurnCompleted /\ modelOut = TwoNavigates) => {2, 3} \subseteq navCalls

\* the transcript a conversation holds once the turn has completed: what it
\* held before, the user message, one assistant message with the model output
CompletedTranscript ==
    [k \in 1..(Len(closure) + 2) |->
        IF k <= Len(closure)
        THEN [role |-> closure[k].role, content |-> closure[k].content,
              conversationId |-> req.conversationId]
        ELSE IF k = Len(closure) + 1
        THEN [role |-> "user", content |-> UserQuery,
              conversationId |-> req.conversationId]
        ELSE [role |-> "assistant", content |-> modelOut,
              conversationId |-> req.conversationId]]

\* C9: when a turn completes, exactly one assistant Message has been persisted
\* for it, and its content is the concatenation of all the fragments of the
\* model output in generation order, verbatim, command lines included.
OneAssistantMessageWithWholeOutput ==
    srvPc = "completed" => dbMessages = CompletedTranscript

\* a turn has completed in a conversation that held messages before, on an
\* output with a command line that was generated in more than one fragment
CompletedAfterSeveralFragments ==
    /\ srvPc = "completed"
    /\ closure # <<>>
    /\ modelOut = AnswerNavigateDone
    /\ Len(fullResponse) > MaxFragment
    /\ fullResponse = modelOut

\* C10: when the query on the chunk store fails, the turn ends with an
\* assistant Message persisted in the conversation whose content is the
\* fallback explanation, and the client dispatches no command for the turn.
FallbackPersistedAndNoCommands ==
    (srvPc = "fallback" /\ cliPc = "done") =>
        /\ \E k \in 1..Len(dbMessages) :
            dbMessages[k] = [role |-> "assistant", content |-> FallbackMessage,
                             conversationId |-> req.conversationId]
        /\ hlCalls = {}
        /\ navCalls = {}

(***************************************************************************)
(* Properties of parseToolCalls and of the viewer, checked under SpecParse *)
(***************************************************************************)
\* C4: when the assistant text holds a HIGHLIGHT command for page p and no
\* NAVIGATE command, the dispatch sets the highlights to that page and bbox
\* and navigates the viewer to page p: on "It's described on page 4.\n
\* HIGHLIGHT: 4,100,200,500,250\n" it calls onNavigateToPage(4) and
\* onHighlight([{page 4, bbox 100,200,500,250}]).
HighlightAlsoNavigates ==
    (inputKind = "highlightOnly" /\ cliPc = "parsed") =>
        /\ <<HighlightOnlyExpected>> \in hlCalls
        /\ highlights = <<HighlightOnlyExpected>>
        /\ 4 \in navCalls
        /\ currentPage = 4

\* C5: on NAVIGATE: followed by 0, 1 or 2 spaces, an optional page keyword in
\* any case, optional spaces and the digit 7, parseToolCalls extracts page 7
\* and calls onNavigateToPage(7).
NavigateExtractsSeven ==
    inputKind = "navigate" =>
        /\ ParseToolCalls(parseInput) = [highlight |-> <<>>, navigate |-> <<7>>]
        /\ cliPc = "parsed" =>
            (navCalls = {7} /\ currentPage = 7 /\ hlCalls = {})

\* parseToolCalls has run on a NAVIGATE command with two spaces, the keyword
\* Page and two more spaces before the 7
NavigateParsedWithKeywordAndSpaces ==
    /\ inputKind = "navigate"
    /\ cliPc = "parsed"
    /\ parseInput = NavigateKeyword \o Spaces(MaxNavSpaces) \o <<"P","a","g","e">>
                        \o Spaces(MaxNavSpaces) \o <<"7">>
    /\ currentPage = 7

\* C6: on a HIGHLIGHT command with the fields 3,10.5,20,300.25,400 and any
\* white space around each comma, parseToolCalls extracts exactly page 3 and
\* the bbox x0 10.5, y0 20, x1 300.25, y1 400, and passes it to onHighlight.
HighlightExtractsFields ==
    inputKind = "highlight" =>
        /\ ParseToolCalls(parseInput) =
                [highlight |-> << <<ExpectedHighlight>> >>, navigate |-> <<>>]
        /\ cliPc = "parsed" =>
            (hlCalls = {<<ExpectedHighlight>>} /\ highlights = <<ExpectedHighlight>>)

\* parseToolCalls has run on the HIGHLIGHT command with the most white space
\* on both sides of every comma
HighlightParsedWithSpaces ==
    /\ inputKind = "highlight"
    /\ cliPc = "parsed"
    /\ parseInput = HighlightText([k \in 1..8 |-> MaxCommaSpaces])
    /\ highlights = <<ExpectedHighlight>>

\* C7: on a command text whose numeric fields are malformed (a field that is
\* no number, such as . or 1.2.3, or a field missing as in HIGHLIGHT: 3,10,20)
\* parseToolCalls calls neither onHighlight nor onNavigateToPage.
MalformedDispatchesNothing ==
    (inputKind = "malformed" /\ cliPc = "parsed") => (hlCalls = {} /\ navCalls = {})

\* the step dispatches the calls the dispatch before it made
SameDispatchAgain ==
    /\ cliPc' \in {"parsed", "clicked"}
    /\ lastCalls # NoToolCalls
    /\ lastCalls' = lastCalls

\* C8: dispatching the same Highlight{page, bbox}, and the same
\* Navigate{page}, twice in a row leaves the highlights and the current page
\* as dispatching it once left them.
DispatchIsIdempotent ==
    [][SameDispatchAgain => (highlights' = highlights /\ currentPage' = currentPage)]_vars

\* a highlight with its navigation has been dispatched twice in a row
HighlightDispatchedTwice ==
    /\ repeated
    /\ lastCalls.highlight # <<>>
    /\ lastCalls.navigate # <<>>
    /\ highlights = lastCalls.highlight[1]
    /\ currentPage = lastCalls.navigate[1]

(***************************************************************************)
(* Failures of the turn, checked under Spec                                *)
(***************************************************************************)
\* the Message table when the turn has saved the user message and no more
TranscriptWithoutAnswer == SubSeq(CompletedTranscript, 1, Len(closure) + 1)

ClientAnswers == SubSeq(messages, Len(closure) + 2, Len(messages))

\* C12: when the completion stream fails after the client has received some
\* fragments, the transcript of the client holds exactly one assistant message
\* for the turn, the synthetic failure message; the partly streamed assistant
\* text is not kept as a message.
FailedStreamLeavesOnlyFailureMessage ==
    (cliPc = "done" /\ streamEnd = "errored" /\ fullResponse # <<>> /\ wire = <<>>) =>
        ClientAnswers = <<[id |-> ErrorMessageId, role |-> "assistant",
                           content |-> ErrorMessageText]>>

(***************************************************************************)
(* SpecFraming: the route has completed a turn whose output came in one or *)
(* two fragments over the characters a, double quote, backslash, newline,  *)
(* and the client, its placeholder appended, reads the body.               *)
(***************************************************************************)
\* the longest fragment of SpecFraming
MaxFramedFragment == 2

FragmentCharacters == {"a", "\"", "\\", "\n"}

FramedFragments ==
    UNION {[1..n -> FragmentCharacters] : n \in 1..MaxFramedFragment}

\* the outputs as the fragments they are generated in
FragmentedOutputs ==
    {<<f>> : f \in FramedFragments}
        \cup {<<f, g>> : f \in FramedFragments, g \in FramedFragments}

\* result.textStream as a whole: the fragments one after the other
RECURSIVE Concatenation(_)
Concatenation(fragments) ==
    IF fragments = <<>> THEN <<>>
    ELSE Head(fragments) \o Concatenation(Tail(fragments))

\* what the route has enqueued when it has closed the stream
FramesOf(fragments) ==
    [k \in 1..Len(fragments) |-> Frame(fragments[k])] \o <<CompletionFrame>>

\* the Message table of a completed turn with the output out
TranscriptOfTurn(out) ==
    <<[role |-> "user", content |-> UserQuery, conversationId |-> "c1"],
      [role |-> "assistant", content |-> out, conversationId |-> "c1"]>>

InitFraming ==
    /\ \E fragments \in FragmentedOutputs :
        /\ modelOut = Concatenation(fragments)
        /\ fullResponse = Concatenation(fragments)
        /\ wire = FramesOf(fragments)
        /\ dbMessages = TranscriptOfTurn(Concatenation(fragments))
    /\ upstream = <<>>
    /\ srvPc = "completed"
    /\ streamEnd = "closed"
    /\ response = [status |-> 200, kind |-> "stream"]
    /\ req = [user |-> "u1",
              messages |-> <<[role |-> "user", content |-> UserQuery]>>,
              documentId |-> "d1", conversationId |-> "c1"]
    /\ chunkStore = DefaultChunkStore
    /\ queryVector = EmbeddingOf(UserQuery)
    /\ relevantChunks \in VectorSearch(DefaultChunkStore, "d1", EmbeddingOf(UserQuery))
    /\ cliPc = "reading"
    /\ props = [user |-> "u1", documentId |-> "d1", conversationId |-> "c1",
                isEnabled |-> TRUE]
    /\ input = <<>>
    /\ messages = <<[id |-> UserMessageId, role |-> "user", content |-> UserQuery],
                    [id |-> AssistantMessageId, role |-> "assistant", content |-> <<>>]>>
    /\ closure = <<>>
    /\ isLoading = TRUE
    /\ mounted = TRUE
    /\ parseInput = <<>>
    /\ inputKind = "none"
    /\ ViewerInit
    /\ HistoryInit
    /\ SideInit

NextFraming ==
    \/ ClientRead
    \/ ClientReadDone

SpecFraming == InitFraming /\ [][NextFraming]_vars

\* C13: for every fragment the model can emit, fragments with a double quote,
\* a backslash or a newline included, the frame 0:"<fragment>" of the route is
\* decoded by the per-line split of the client to that very fragment, so the
\* text the client has accumulated is the concatenation of the fragments.
FramesDecodeToFragments ==
    cliPc = "done" => ContentOf(messages, AssistantMessageId) = modelOut

(***************************************************************************)
(* The frames of the response body, checked under Spec                     *)
(***************************************************************************)
\* the frames of a queue that are the completion frame
CompletionFramesIn(queue) == {k \in 1..Len(queue) : queue[k] = CompletionFrame}

\* the step enqueues one chunk on the response body
EnqueuesOne == Len(wire') = Len(wire) + 1 /\ SubSeq(wire', 1, Len(wire)) = wire

\* the step leaves the response body alone or reads its first chunk
EnqueuesNothing == wire' = wire \/ (wire # <<>> /\ wire' = Tail(wire))

\* a step of a streamed response: a fragment frame is enqueued while the
\* stream stays open, or the completion frame is, and the stream is closed in
\* the same step, or nothing is enqueued; once the stream has been closed or
\* has errored nothing is enqueued
FrameStep ==
    /\ EnqueuesOne \/ EnqueuesNothing
    /\ EnqueuesOne =>
        /\ streamEnd = "open"
        /\ \/ /\ IsFragmentLine(wire'[Len(wire')])
              /\ streamEnd' = "open"
           \/ /\ wire'[Len(wire')] = CompletionFrame
              /\ streamEnd' = "closed"
              /\ srvPc' = "completed"
    /\ (streamEnd = "open" /\ streamEnd' = "closed") =>
        (EnqueuesOne /\ wire'[Len(wire')] = CompletionFrame)

\* C14: the response stream of a successful turn is fragment frames followed
\* by exactly one completion frame d:{"finishReason":"stop"}, which is the
\* last frame; no fragment frame follows it, and a stream that fails never
\* emits the completion frame.
CompletionFrameOnceAndLast ==
    /\ [](response.kind = "stream" =>
            /\ CompletionFramesIn(wire) \subseteq {Len(wire)}
            /\ CompletionFramesIn(wire) # {} => (streamEnd = "closed" /\ srvPc = "completed")
            /\ streamEnd = "errored" => CompletionFramesIn(wire) = {}
            /\ srvPc = "completed" <=> streamEnd = "closed")
    /\ [][response.kind = "stream" => FrameStep]_vars

\* the route has closed the stream and the body holds a fragment frame and,
\* after it, the completion frame
ClosedAfterFragmentFrame ==
    /\ srvPc = "completed"
    /\ Len(wire) = 2
    /\ IsFragmentLine(wire[1])
    /\ wire[2] = CompletionFrame

(***************************************************************************)
(* The states of a turn, checked under Spec                                *)
(***************************************************************************)
\* the state of the turn the route stands for: the request is being checked
\* and the user message saved (QuerySent), the query is embedded and the
\* chunks are searched (Retrieving), the rows are there (PromptAssembled),
\* the output is streamed and saved (Streaming)
TurnPhase ==
    CASE srvPc = "idle" -> "Idle"
      [] srvPc \in {"received", "saveUser"} -> "QuerySent"
      [] srvPc \in {"embed", "retrieve"} -> "Retrieving"
      [] srvPc = "prompt" -> "PromptAssembled"
      [] srvPc \in {"streaming", "persisted"} -> "Streaming"
      [] srvPc = "completed" -> "Completed"
      [] srvPc = "fallback" -> "Degraded"
      [] srvPc \in {"rejected", "embedFailed", "streamFailed", "updateFailed"} -> "Failed"

\* Idle, QuerySent, Retrieving, PromptAssembled, Streaming, Completed in that
\* order, or Failed from Retrieving or Streaming
StatedMoves ==
    {<<"Idle", "QuerySent">>, <<"QuerySent", "Retrieving">>,
     <<"Retrieving", "PromptAssembled">>, <<"PromptAssembled", "Streaming">>,
     <<"Streaming", "Completed">>, <<"Retrieving", "Failed">>,
     <<"Streaming", "Failed">>}

\* the moves of a request that is refused (401, 400, 404) and of a turn whose
\* vector search has failed
RefusedAndDegradedMoves ==
    {<<"QuerySent", "Failed">>, <<"Retrieving", "Degraded">>}

\* C15 as stated: a turn only moves along Idle, QuerySent, Retrieving,
\* PromptAssembled, Streaming, Completed in that order, or to Failed from
\* Retrieving or Streaming; Completed and Failed are terminal, and a turn
\* whose retrieval succeeds enters Streaming before it can complete.
TurnMovesAsStated ==
    [][TurnPhase' = TurnPhase \/ <<TurnPhase, TurnPhase'>> \in StatedMoves]_vars

\* C15, amended: a turn moves along Idle, QuerySent, Retrieving,
\* PromptAssembled, Streaming, Completed in that order, or to Failed from
\* QuerySent (the request is refused), Retrieving or Streaming, or from
\* Retrieving to the degraded answer of a failed vector search; Completed,
\* Failed and the degraded answer are terminal, and whenever the vector search
\* succeeds, with zero rows too, the turn enters Streaming before it completes.
TurnMovesAmended ==
    /\ [][TurnPhase' = TurnPhase
            \/ <<TurnPhase, TurnPhase'>> \in StatedMoves \cup RefusedAndDegradedMoves]_vars
    /\ [][(srvPc = "retrieve" /\ srvPc' # "fallback") => srvPc' = "prompt"]_vars
    /\ [](srvPc = "completed" => (response.kind = "stream" /\ streamEnd = "closed"))

\* a turn whose vector search gave zero rows has streamed its output and
\* completed
CompletedWithZeroChunks ==
    /\ srvPc = "completed"
    /\ relevantChunks = <<>>
    /\ fullResponse = modelOut
    /\ modelOut # <<>>

(***************************************************************************)
(* The order of the fragments, checked under Spec                          *)
(***************************************************************************)
IsPrefix(p, t) == Len(p) <= Len(t) /\ SubSeq(t, 1, Len(p)) = p

\* the assistant text the client has accumulated for the turn
AccumulatedText == ContentOf(messages, AssistantMessageId)

\* C16: fragments are consumed in generation order: at every point of the
\* streaming the assistant text the client has accumulated is a prefix of the
\* whole model output, and it only grows by appending the next fragment.
AccumulatedTextIsPrefixOfOutput ==
    /\ [](response.kind = "stream" => IsPrefix(AccumulatedText, modelOut))
    /\ [][response.kind = "stream" => IsPrefix(AccumulatedText, AccumulatedText')]_vars

(***************************************************************************)
(* A turn the caller abandons, checked under Spec                          *)
(***************************************************************************)
\* C17: when the caller abandons a turn while it is streaming (the chat is
\* unmounted), the route stops consuming the output of the model and persists
\* no assistant Message with the partly streamed text for the turn.
AbandonedTurnStopsAndPersistsNothing ==
    [][~mounted => (upstream' = upstream /\ dbMessages' = dbMessages)]_vars


(***************************************************************************)
(* SpecConcurrent: two requests of POST /api/chat are in flight at once.   *)
(* srvPc, req, modelOut, upstream, response, wire and streamEnd hold one   *)
(* value for each request, fullResponse one for each `let fullResponse`;   *)
(* the Message table dbMessages is the one both requests write to.  The    *)
(* steps of a request are the awaits of the handler.                       *)
(***************************************************************************)
Turns == {1, 2}

\* what the model streams for each of the two requests
TurnOutputs ==
    [t \in Turns |->
        IF t = 1 THEN {<<"O","n","e",".">>, <<"H","i">>}
                 ELSE {<<"T","w","o",".">>, <<"N","o">>}]

\* the last user message of each of the two requests
TurnQueries == [t \in Turns |-> IF t = 1 THEN <<"W","h","y","?">> ELSE <<"H","o","w","?">>]

\* the callers: each user with each conversation
TurnRequests(t) ==
    {[user |-> u, messages |-> <<[role |-> "user", content |-> TurnQueries[t]]>>,
      documentId |-> Conversations[c].documentId, conversationId |-> c] :
        u \in {"u1", "u2"}, c \in {"c1", "c2"}}

\* a mutant of ResponseSlot: fullResponse declared once, at module level
ResponseSlot_Shared(turn) == 1

\* `let fullResponse = ""` stands inside POST: every request has its own
ResponseSlot(turn) == turn

InitConcurrent ==
    /\ srvPc = [t \in Turns |-> "received"]
    /\ req \in {r \in [Turns -> UNION {TurnRequests(t) : t \in Turns}] :
                    \A t \in Turns : r[t] \in TurnRequests(t)}
    /\ dbMessages = <<>>
    /\ modelOut = [t \in Turns |-> <<>>]
    /\ upstream = [t \in Turns |-> <<>>]
    /\ fullResponse = [t \in Turns |-> <<>>]
    /\ response = [t \in Turns |-> NoResponse]
    /\ wire = [t \in Turns |-> <<>>]
    /\ streamEnd = [t \in Turns |-> "open"]
    /\ chunkStore = DefaultChunkStore
    /\ queryVector = 0
    /\ relevantChunks = <<>>
    /\ cliPc = "idle"
    /\ props = [user |-> "u1", documentId |-> "d1", conversationId |-> "c1",
                isEnabled |-> TRUE]
    /\ input = <<>>
    /\ messages = <<>>
    /\ closure = <<>>
    /\ isLoading = FALSE
    /\ mounted = TRUE
    /\ parseInput = <<>>
    /\ inputKind = "none"
    /\ ViewerInit
    /\ HistoryInit
    /\ SideInit

concurrentFixed == <<chunkStore, queryVector, relevantChunks, cliVars, viewVars,
                     parseVars, sideVars, histVars>>

\* authentication, validation, prisma.conversation.findFirst
TurnCheck(t) ==
    /\ srvPc[t] = "received"
    /\ IF CheckStatus(req[t]) = 200
       THEN /\ srvPc' = [srvPc EXCEPT ![t] = "saveUser"]
            /\ UNCHANGED response
       ELSE /\ srvPc' = [srvPc EXCEPT ![t] = "rejected"]
            /\ response' = [response EXCEPT ![t] = JsonResponse(CheckStatus(req[t]))]
    /\ UNCHANGED <<req, dbMessages, modelOut, upstream, fullResponse, wire, streamEnd,
                   concurrentFixed>>

\* prisma.message.create of the user message
TurnSaveUser(t) ==
    /\ srvPc[t] = "saveUser"
    /\ dbMessages' = Append(dbMessages,
            [role |-> "user",
             content |-> req[t].messages[Len(req[t].messages)].content,
             conversationId |-> req[t].conversationId])
    /\ srvPc' = [srvPc EXCEPT ![t] = "embed"]
    /\ UNCHANGED <<req, modelOut, upstream, fullResponse, response, wire, streamEnd,
                   concurrentFixed>>

\* the embedding call, the vector search, the prompt, streamText and
\* `let fullResponse = ""`: none of them reads or writes the Message table.
\* Or the embedding call fails and the outer catch answers 500
TurnStreamText(t) ==
    /\ srvPc[t] = "embed"
    /\ \/ /\ \E out \in TurnOutputs[t] :
                /\ modelOut' = [modelOut EXCEPT ![t] = out]
                /\ upstream' = [upstream EXCEPT ![t] = out]
          /\ fullResponse' = [fullResponse EXCEPT ![ResponseSlot(t)] = <<>>]
          /\ response' = [response EXCEPT ![t] = [status |-> 200, kind |-> "stream"]]
          /\ srvPc' = [srvPc EXCEPT ![t] = "streaming"]
       \/ /\ srvPc' = [srvPc EXCEPT ![t] = "embedFailed"]
          /\ response' = [response EXCEPT ![t] = JsonResponse(500)]
          /\ UNCHANGED <<modelOut, upstream, fullResponse>>
    /\ UNCHANGED <<req, dbMessages, wire, streamEnd, concurrentFixed>>

\* one turn of for await (const chunk of result.textStream) of request t
TurnStreamChunk(t) ==
    /\ srvPc[t] = "streaming"
    /\ upstream[t] # <<>>
    /\ \E n \in 1..MaxFragment :
        /\ n <= Len(upstream[t])
        /\ fullResponse' = [fullResponse EXCEPT ![ResponseSlot(t)] =
                AppendChunk(fullResponse[ResponseSlot(t)], SubSeq(upstream[t], 1, n))]
        /\ wire' = [wire EXCEPT ![t] = Append(wire[t], Frame(SubSeq(upstream[t], 1, n)))]
        /\ upstream' = [upstream EXCEPT ![t] = SubSeq(upstream[t], n + 1, Len(upstream[t]))]
    /\ UNCHANGED <<srvPc, req, dbMessages, modelOut, response, streamEnd,
                   concurrentFixed>>

\* the text stream of request t has ended: prisma.message.create of the
\* assistant message
TurnStreamPersist(t) ==
    /\ srvPc[t] = "streaming"
    /\ upstream[t] = <<>>
    /\ dbMessages' = Append(dbMessages,
            [role |-> "assistant", content |-> fullResponse[ResponseSlot(t)],
             conversationId |-> req[t].conversationId])
    /\ srvPc' = [srvPc EXCEPT ![t] = "persisted"]
    /\ UNCHANGED <<req, modelOut, upstream, fullResponse, response, wire, streamEnd,
                   concurrentFixed>>

\* prisma.conversation.update, the completion frame, controller.close()
TurnStreamClose(t) ==
    /\ srvPc[t] = "persisted"
    /\ wire' = [wire EXCEPT ![t] = EnqueueCompletion(wire[t])]
    /\ streamEnd' = [streamEnd EXCEPT ![t] = "closed"]
    /\ srvPc' = [srvPc EXCEPT ![t] = "completed"]
    /\ UNCHANGED <<req, dbMessages, modelOut, upstream, fullResponse, response,
                   concurrentFixed>>

\* the text stream of request t throws, or one of its two prisma calls does
TurnStreamFail(t) ==
    /\ srvPc[t] \in {"streaming", "persisted"}
    /\ dbMessages' = CatchStreamError(dbMessages, fullResponse[ResponseSlot(t)],
                                      req[t].conversationId)
    /\ streamEnd' = [streamEnd EXCEPT ![t] = "errored"]
    /\ srvPc' = [srvPc EXCEPT ![t] =
                    IF srvPc[t] = "streaming" THEN "streamFailed" ELSE "updateFailed"]
    /\ UNCHANGED <<req, modelOut, upstream, fullResponse, response, wire,
                   concurrentFixed>>

NextConcurrent ==
    \E t \in Turns :
        \/ TurnCheck(t)
        \/ TurnSaveUser(t)
        \/ TurnStreamText(t)
        \/ TurnStreamChunk(t)
        \/ TurnStreamPersist(t)
        \/ TurnStreamClose(t)
        \/ TurnStreamFail(t)

SpecConcurrent == InitConcurrent /\ [][NextConcurrent]_vars

\* the requests whose assistant message has been created
TurnsPersisted == {t \in Turns : srvPc[t] \in {"persisted", "completed", "updateFailed"}}

AssistantRows == {k \in 1..Len(dbMessages) : dbMessages[k].role = "assistant"}

\* C18: under every interleaving of two concurrent chat turns the turns never
\* write to the same Message: there is one assistant Message for each turn
\* that reached its create, it holds exactly the text of that turn's stream
\* and it is stored in that turn's conversation.
TurnsWriteOwnMessages ==
    /\ Cardinality(AssistantRows) = Cardinality(TurnsPersisted)
    /\ \A t \in TurnsPersisted :
        \E k \in AssistantRows :
            dbMessages[k] = [role |-> "assistant", content |-> modelOut[t],
                             conversationId |-> req[t].conversationId]

\* one turn has persisted its answer while the other one, in the same
\* conversation, is in the middle of its stream
PersistedWhileOtherTurnStreams ==
    /\ srvPc[1] = "persisted"
    /\ srvPc[2] = "streaming"
    /\ fullResponse[2] # <<>>
    /\ upstream[2] # <<>>
    /\ req[1].conversationId = req[2].conversationId


(***************************************************************************)
(* Commands inside a line of prose, checked under SpecParse                *)
(***************************************************************************)
\* the text parseToolCalls is applied to holds `command` inside a line
EmbeddedIn(command) == parseInput \in EmbeddedTexts(command)

\* the calls the dispatch made are those `calls` says, and the viewer shows them
DispatchedAs(calls) ==
    /\ calls # NoToolCalls
    /\ lastCalls = calls
    /\ calls.navigate # <<>> => currentPage = calls.navigate[1]
    /\ calls.highlight # <<>> => highlights = calls.highlight[1]

CallerOwnsConversation ==
    /\ req.user # NoUser
    /\ req.conversationId \in DOMAIN Conversations
    /\ Conversations[req.conversationId].userId = req.user

\* the request names a conversation of somebody else
ConversationOfAnotherUser ==
    /\ req.user # NoUser
    /\ req.conversationId \in DOMAIN Conversations
    /\ Conversations[req.conversationId].userId # req.user

\* the step persists no Message and calls neither the embedding, nor the
\* vector search, nor the model
NoSideEffectStep ==
    /\ dbMessages' = dbMessages
    /\ queryVector' = queryVector
    /\ relevantChunks' = relevantChunks
    /\ modelOut' = modelOut
    /\ srvPc' \in {"idle", "received", "rejected"}

ContextBlock(row, index) ==
    [index |-> index, pageNumber |-> row.pageNumber, chunk |-> row.id]

\* relevantChunks.map(...).join("\n\n")
ContextText(rows) == [k \in 1..Len(rows) |-> ContextBlock(rows[k], k)]

\* messages.slice(0, -1).map(msg => `${msg.role}: ${msg.content}`).join("\n")
ChatHistory(msgs) ==
    [k \in 1..(Len(msgs) - 1) |-> [role |-> msgs[k].role, content |-> msgs[k].content]]

\* the holes of systemPrompt, filled
SystemPrompt(rows, msgs) ==
    [contextText |-> ContextText(rows),
     chatHistory |-> ChatHistory(msgs),
     userQuery |-> msgs[Len(msgs)].content]

\* C22: when the retrieval succeeds with zero chunks, the system prompt handed
\* to the model holds a 'no context' phrase where the retrieved context goes:
\* the context of the prompt is not the empty text.
ZeroChunksPromptHasNoContextPhrase ==
    (srvPc = "streaming" /\ relevantChunks = <<>>) =>
        SystemPrompt(relevantChunks, req.messages).contextText # <<>>


(***************************************************************************)
(* SpecHistory: the next turn of a page on which one turn has ended.  The   *)
(* turn before was completed ("Hi", "Hello.") or it failed at the embedding *)
(* call: the route had saved "Hi", the client appended its error message.   *)
(***************************************************************************)
\* what the Message table and the transcript state hold when a turn has ended
EndedTurns ==
    {[persisted |-> <<[role |-> "user", content |-> <<"H","i">>],
                      [role |-> "assistant", content |-> <<"H","e","l","l","o",".">>]>>,
      shown |-> <<[role |-> "user", content |-> <<"H","i">>],
                  [role |-> "assistant", content |-> <<"H","e","l","l","o",".">>]>>],
     [persisted |-> <<[role |-> "user", content |-> <<"H","i">>]>>,
      shown |-> <<[role |-> "user", content |-> <<"H","i">>],
                  [role |-> "assistant", content |-> ErrorMessageText]>>]}

InitHistory ==
    /\ ServerIdle
    /\ chunkStore = DefaultChunkStore
    /\ input = <<" ">> \o UserQuery \o <<" ">>
    /\ \E t \in EndedTurns :
        /\ dbMessages = [k \in 1..Len(t.persisted) |->
                [role |-> t.persisted[k].role, content |-> t.persisted[k].content,
                 conversationId |-> "c1"]]
        /\ messages = [k \in 1..Len(t.shown) |->
                [id |-> PriorIds[k], role |-> t.shown[k].role,
                 content |-> t.shown[k].content]]
    /\ cliPc = "idle"
    /\ props = [user |-> "u1", documentId |-> "d1", conversationId |-> "c1",
                isEnabled |-> TRUE]
    /\ closure = <<>>
    /\ isLoading = FALSE
    /\ mounted = TRUE
    /\ parseInput = <<>>
    /\ inputKind = "none"
    /\ ViewerInit
    /\ HistoryInit
    /\ SideInit

SpecHistory == InitHistory /\ [][Next]_vars

\* the Messages of the conversation of the turn, in creation order
PersistedMessages ==
    SelectSeq(dbMessages, LAMBDA row : row.conversationId = req.conversationId)

\* the persisted Messages but the last one, the current query, as role and
\* content
PersistedHistory ==
    [k \in 1..(Len(PersistedMessages) - 1) |->
        [role |-> PersistedMessages[k].role, content |-> PersistedMessages[k].content]]

\* C23: after any sequence of completed and failed turns in a conversation the
\* prior turns serialized into the prompt of the next turn are exactly the
\* persisted Messages of the conversation in creation order, without the
\* current query.
PromptHistoryIsPersistedMessages ==
    srvPc = "streaming" =>
        SystemPrompt(relevantChunks, req.messages).chatHistory = PersistedHistory


(***************************************************************************)
(* SpecReading: the route has completed a turn and closed the stream; the  *)
(* client, its placeholder appended, reads the body, and the user may      *)
(* clear the highlights of the viewer meanwhile.  The outputs:             *)
(* "NAVIGATE: 12" and "HIGHLIGHT: 3,10.5,20,300.25,400 ok." in one or two  *)
(* fragments, each frame one read; and "Hi", "!" whose framed bytes the    *)
(* transport hands over in up to MaxReads reads, cut anywhere.             *)
(***************************************************************************)
\* the most reads the bytes of a body arrive in
MaxReads == 3

PageTwelve == NavigateKeyword \o <<" ","1","2">>

HighlightThenProse == HighlightText([k \in 1..8 |-> 0]) \o <<" ","o","k",".">>

\* a text generated as one fragment or as two
OneOrTwoFragments(out) ==
    {<<out>>} \cup {<<SubSeq(out, 1, n), SubSeq(out, n + 1, Len(out))>> :
                        n \in 1..(Len(out) - 1)}

\* the ways the transport hands bytes over in at most n reads
RECURSIVE Cuts(_, _)
Cuts(bytes, n) ==
    IF n <= 1 THEN {<<bytes>>}
    ELSE {<<bytes>>} \cup
         UNION {{<<SubSeq(bytes, 1, i)>> \o rest :
                    rest \in Cuts(SubSeq(bytes, i + 1, Len(bytes)), n - 1)} :
                i \in 1..(Len(bytes) - 1)}

\* the bodies: the output of the model and what each reader.read() gives
ReadingBodies ==
    {[out |-> Concatenation(fragments), reads |-> FramesOf(fragments)] :
        fragments \in OneOrTwoFragments(PageTwelve)
                        \cup OneOrTwoFragments(HighlightThenProse)}
    \cup {[out |-> <<"H","i","!">>, reads |-> reads] :
            reads \in Cuts(Concatenation(FramesOf(<<<<"H","i">>, <<"!">>>>)), MaxReads)}

InitReading ==
    /\ \E body \in ReadingBodies :
        /\ modelOut = body.out
        /\ fullResponse = body.out
        /\ wire = body.reads
        /\ dbMessages = TranscriptOfTurn(body.out)
    /\ upstream = <<>>
    /\ srvPc = "completed"
    /\ streamEnd = "closed"
    /\ response = [status |-> 200, kind |-> "stream"]
    /\ req = [user |-> "u1",
              messages |-> <<[role |-> "user", content |-> UserQuery]>>,
              documentId |-> "d1", conversationId |-> "c1"]
    /\ chunkStore = DefaultChunkStore
    /\ queryVector = EmbeddingOf(UserQuery)
    /\ relevantChunks \in VectorSearch(DefaultChunkStore, "d1", EmbeddingOf(UserQuery))
    /\ cliPc = "reading"
    /\ props = [user |-> "u1", documentId |-> "d1", conversationId |-> "c1",
                isEnabled |-> TRUE]
    /\ input = <<>>
    /\ messages = <<[id |-> UserMessageId, role |-> "user", content |-> UserQuery],
                    [id |-> AssistantMessageId, role |-> "assistant", content |-> <<>>]>>
    /\ closure = <<>>
    /\ isLoading = TRUE
    /\ mounted = TRUE
    /\ parseInput = <<>>
    /\ inputKind = "none"
    /\ ViewerInit
    /\ HistoryInit
    /\ SideInit

\* the "Clear all highlights" button of PDFViewer while the turn is read:
\* handleClearHighlights
ClearHighlightsWhileReading ==
    /\ cliPc = "reading"
    /\ highlights # <<>>
    /\ highlights' = HandleClearHighlights(highlights)
    /\ lastCalls' = NoToolCalls
    /\ repeated' = FALSE
    /\ UNCHANGED <<srvVars, cliVars, parseVars, sideVars, currentPage, hlCalls, navCalls>>

NextReading ==
    \/ ClientRead
    \/ ClientReadDone
    \/ ClearHighlightsWhileReading

SpecReading == InitReading /\ [][NextReading]_vars

\* the pages of the NAVIGATE commands of a text, every command of it
NavigatePagesIn(content) ==
    {ParseInt(NavigateMatchAt(content, i).groups[1]) :
        i \in {i \in 1..Len(content) : NavigateMatchAt(content, i).found}}

\* the highlights of the HIGHLIGHT commands of a text, every command of it
HighlightsIn(content) ==
    {<<HighlightOf(HighlightMatchAt(content, i).groups)>> :
        i \in {i \in 1..Len(content) : HighlightMatchAt(content, i).found}}

\* C24: while the fragments arrive the dispatcher issues only commands the
\* complete text confirms: every page passed to onNavigateToPage and every
\* highlight passed to onHighlight is that of a command of the final assistant
\* text, never a value parsed from a truncated number.
DispatchedCommandsAreInFinalText ==
    /\ navCalls \subseteq NavigatePagesIn(modelOut)
    /\ hlCalls \subseteq HighlightsIn(modelOut)


(***************************************************************************)
(* The reads of the transport, checked under SpecReading                   *)
(***************************************************************************)
\* the text the read loop accumulates over the reads, from `content` on
RECURSIVE TextOfReads(_, _)
TextOfReads(content, reads) ==
    IF reads = <<>> THEN content
    ELSE TextOfReads(ProcessLines([content |-> content, view |-> View],
                                  Split(Head(reads))).content,
                     Tail(reads))

\* the frames of "Hi", "!" as the route enqueues them
GreetingFrames == FramesOf(<<<<"H","i">>, <<"!">>>>)

\* C25: the assistant text the client accumulates does not depend on how the
\* transport cuts the framed bytes into reads: whatever the cut of the frames
\* of "Hi", "!", a cut inside a frame included, the final text is the one
\* the frame by frame reads give.
AccumulatedTextIndependentOfReads ==
    (cliPc = "done" /\ modelOut = <<"H","i","!">>) =>
        AccumulatedText = TextOfReads(<<>>, GreetingFrames)


(***************************************************************************)
(* Fragments after a command, checked under SpecReading                    *)
(***************************************************************************)
\* a read has added text to the assistant message and no command to it, and
\* commands had been dispatched before
FragmentAddsNoCommand ==
    /\ hlCalls \cup navCalls # {}
    /\ ContentOf(messages', AssistantMessageId) # AccumulatedText
    /\ NavigatePagesIn(ContentOf(messages', AssistantMessageId))
            = NavigatePagesIn(AccumulatedText)
    /\ HighlightsIn(ContentOf(messages', AssistantMessageId))
            = HighlightsIn(AccumulatedText)

\* C26: once a command has been dispatched, later fragments that add no new
\* command leave the highlights and the current page of the viewer as they
\* are, also when the user has cleared the highlights in between: cleared
\* highlights stay cleared until a new command appears in the text.
LaterFragmentsLeaveViewerAlone ==
    [][FragmentAddsNoCommand =>
            (highlights' = highlights /\ currentPage' = currentPage)]_vars


(***************************************************************************)
(* The final parse, checked under Spec                                     *)
(***************************************************************************)
\* the read loop has seen the end of the body: the step that leaves it
StreamEndsForClient == cliPc = "reading" /\ cliPc' = "done" /\ streamEnd = "closed"

\* C28: after the stream has ended the client runs parseToolCalls once more on
\* the complete accumulated content of the assistant message of the turn: the
\* callbacks are called as that content says.
FinalParseOnCompleteContent ==
    [][StreamEndsForClient => View' = ViewAfter(View, ParseToolCalls(AccumulatedText))]_vars


(***************************************************************************)
(* SpecSession: sessions.  Time is counted in ticks, SecondTicks of them   *)
(* to the second of a JWT; a token is its payload and its iat, the token   *)
(* jwt.sign gives being a function of both.  Requests carry the cookie of  *)
(* the browser or a token somebody has kept.                               *)
(***************************************************************************)
\* the last tick
MaxClock == 4

\* the ticks of one second
SecondTicks == 2

\* expiresIn: "7d" and TOKEN_EXPIRY, in seconds
ExpirySeconds == 1

\* the chat, the parser and the viewer: what the session code leaves alone
chatVars == <<srvVars, cliVars, viewVars, parseVars, histVars, voiceVars, speechVars>>

\* Math.floor(Date.now() / 1000), the clock of jsonwebtoken
SecondOf(tick) == tick \div SecondTicks

\* jwt.sign(payload, JWT_SECRET, {expiresIn: "7d"})
SignToken(userId, tick) == [userId |-> userId, iat |-> SecondOf(tick)]

\* jwt.verify throws TokenExpiredError from the second exp = iat + 7d on
JwtExpired(token, tick) == SecondOf(tick) >= token.iat + ExpirySeconds

\* prisma.session.findUnique({where: {token}})
SessionsOf(token) == {row \in sessions : row.token = token}

\* generateToken, and setSessionCookie of the route that called it.  The
\* token column is unique: create throws when the token has a row
GenerateToken(userId) ==
    /\ SessionsOf(SignToken(userId, clock)) = {}
    /\ sessions' = sessions \cup
            {[token |-> SignToken(userId, clock), userId |-> userId,
              expiresAt |-> clock + ExpirySeconds * SecondTicks]}
    /\ cookie' = SignToken(userId, clock)
    /\ loggedOut' = loggedOut \ {SignToken(userId, clock)}
    /\ UNCHANGED <<clock, verified, chatVars>>

\* time passes
ClockTick ==
    /\ clock < MaxClock
    /\ clock' = clock + 1
    /\ UNCHANGED <<sessions, cookie, verified, loggedOut, chatVars>>

\* verifyToken: whether it returns the payload
VerifyResult(token, tick, rows) ==
    /\ ~JwtExpired(token, tick)
    /\ rows # {}
    /\ \A row \in rows : ~(row.expiresAt < tick)

\* the tokens a request may carry
TokensInUse == {row.token : row \in sessions} \cup loggedOut \cup ({cookie} \ {NoToken})

\* verifyToken(token): jwt.verify, findUnique, and for an expired row
\* prisma.session.delete, which deletes the row or throws into the catch
VerifyToken(token) ==
    /\ verified' = [token |-> token, ok |-> VerifyResult(token, clock, SessionsOf(token)),
                    at |-> clock]
    /\ IF ~JwtExpired(token, clock)
          /\ \E row \in SessionsOf(token) : row.expiresAt < clock
       THEN \/ sessions' = sessions \ SessionsOf(token)
            \/ sessions' = sessions
       ELSE sessions' = sessions
    /\ UNCHANGED <<clock, cookie, loggedOut, chatVars>>

\* POST /api/auth/logout with the cookie: deleteSession deletes the row, or
\* prisma.session.delete throws and deleteSession returns false, which the
\* route does not look at; deleteSessionCookie; "Logged out successfully"
Logout ==
    /\ cookie # NoToken
    /\ \/ sessions' = sessions \ SessionsOf(cookie)
       \/ sessions' = sessions
    /\ cookie' = NoToken
    /\ loggedOut' = loggedOut \cup {cookie}
    /\ UNCHANGED <<clock, verified, chatVars>>

\* the chat is idle while the sessions are looked at
InitSession ==
    /\ ServerIdle
    /\ dbMessages = <<>>
    /\ chunkStore = DefaultChunkStore
    /\ cliPc = "idle"
    /\ props = [user |-> NoUser, documentId |-> "d1", conversationId |-> "c1",
                isEnabled |-> TRUE]
    /\ input = <<>>
    /\ messages = <<>>
    /\ closure = <<>>
    /\ isLoading = FALSE
    /\ mounted = TRUE
    /\ parseInput = <<>>
    /\ inputKind = "none"
    /\ ViewerInit
    /\ HistoryInit
    /\ SideInit

NextSession ==
    \/ GenerateToken("u1")
    \/ ClockTick
    \/ \E token \in TokensInUse : VerifyToken(token)
    \/ Logout

SpecSession == InitSession /\ [][NextSession]_vars

\* the step is a verifyToken of `token`
Verifies(token) == verified' # verified /\ verified'.token = token

\* C21: a session token authenticates a request only while a session row for
\* it exists and has not expired; an expired session is deleted the first
\* time it is verified; after a logout has answered successfully the same
\* token never authenticates a later request.
TokenAuthenticatesWhileSessionLives ==
    /\ [][\A token \in TokensInUse :
            (Verifies(token) /\ verified'.ok) =>
                \E row \in SessionsOf(token) : row.expiresAt >= clock]_vars
    /\ [][\A token \in TokensInUse :
            (Verifies(token) /\ \E row \in SessionsOf(token) : row.expiresAt < clock) =>
                \A row \in sessions' : row.token # token]_vars
    /\ [][\A token \in loggedOut :
            Verifies(token) => ~verified'.ok]_vars


\* ---------------------------------------------------------------------------
\* hooks/useSpeechRecognition: the hook and the recogniser of the browser

\* what a hold of the microphone can be heard as
Transcripts == {<<"H", "i">>, <<"G", "o">>}

ErrorTypes == {"network", "no-speech", "audio-capture", "not-allowed", "aborted",
               "service-not-allowed", "language-not-supported"}

\* the message setError shows for an error, "none" where the case sets none
ErrorShown(errorType, shown) ==
    IF errorType \in {"no-speech", "aborted"} THEN shown ELSE errorType

\* recognition.start() throws on a recogniser that has been started and has
\* not ended; after an error event the browser may or may not accept it
StartThrows(rec) ==
    CASE rec = "inactive" -> {FALSE}
      [] rec = "errored" -> {TRUE, FALSE}
      [] OTHER -> {TRUE}

\* recognition.stop(): a started recogniser will end, any other is left alone
Stopped(rec) == IF rec = "started" THEN "stopping" ELSE rec

\* startListening, on the variables of the hook
StartListeningCall ==
    IF ~isListening
    THEN /\ voiceText' = <<>>
         /\ \E throws \in StartThrows(recognition) :
              IF throws
              THEN /\ error' = "start-failed"
                   /\ isListening' = FALSE
                   /\ shouldBeListening' = FALSE
                   /\ recognition' = recognition
                   /\ recEvent' = [call |-> "startListening", started |-> FALSE]
              ELSE /\ error' = "none"
                   /\ isListening' = TRUE
                   /\ shouldBeListening' = TRUE
                   /\ recognition' = "started"
                   /\ recEvent' = [call |-> "startListening", started |-> TRUE]
    ELSE UNCHANGED hookVars

\* stopListening, on the variables of the hook
StopListeningCall ==
    /\ shouldBeListening' = FALSE
    /\ isListening' = FALSE
    /\ recognition' = Stopped(recognition)
    /\ recEvent' = [call |-> "stopListening", started |-> FALSE]
    /\ UNCHANGED <<voiceText, error>>

\* what the hook leaves alone
hookFixed == <<srvVars, cliVars, viewVars, parseVars, histVars, sessionVars,
               timeouts, inFlight, speechVars>>

StartListening == StartListeningCall /\ UNCHANGED hookFixed

StopListening == StopListeningCall /\ UNCHANGED hookFixed

\* recognition.onresult: the transcript so far becomes the text
OnResultCall(transcript) ==
    /\ recognition \in {"started", "stopping"}
    /\ voiceText' = Trim(transcript)
    /\ recEvent' = [call |-> "onresult", started |-> FALSE]
    /\ UNCHANGED <<isListening, error, shouldBeListening, recognition>>

OnResult(transcript) == OnResultCall(transcript) /\ UNCHANGED hookFixed

\* the recogniser raises an error and recognition.onerror runs
OnError(errorType) ==
    /\ recognition \in {"started", "stopping"}
    /\ error' = ErrorShown(errorType, error)
    /\ IF errorType \in {"network", "no-speech"} /\ shouldBeListening
       THEN \E throws \in StartThrows("errored") :
              IF throws
              THEN /\ isListening' = FALSE
                   /\ recognition' = "errored"
                   /\ recEvent' = [call |-> "onerror", started |-> FALSE]
              ELSE /\ isListening' = isListening
                   /\ recognition' = "started"
                   /\ recEvent' = [call |-> "onerror", started |-> TRUE]
       ELSE /\ isListening' = FALSE
            /\ recognition' = "errored"
            /\ recEvent' = [call |-> "onerror", started |-> FALSE]
    /\ UNCHANGED <<voiceText, shouldBeListening, hookFixed>>

\* the recogniser ends and recognition.onend runs
OnEnd ==
    /\ recognition # "inactive"
    /\ IF shouldBeListening
       THEN \E throws \in StartThrows("inactive") :
              IF throws
              THEN /\ isListening' = FALSE
                   /\ shouldBeListening' = FALSE
                   /\ recognition' = "inactive"
                   /\ recEvent' = [call |-> "onend", started |-> FALSE]
              ELSE /\ recognition' = "started"
                   /\ recEvent' = [call |-> "onend", started |-> TRUE]
                   /\ UNCHANGED <<isListening, shouldBeListening>>
       ELSE /\ isListening' = FALSE
            /\ recognition' = "inactive"
            /\ recEvent' = [call |-> "onend", started |-> FALSE]
            /\ UNCHANGED shouldBeListening
    /\ UNCHANGED <<voiceText, error, hookFixed>>

InitRecognition == InitSession

NextRecognition ==
    \/ StartListening
    \/ StopListening
    \/ \E transcript \in Transcripts : OnResult(transcript)
    \/ \E errorType \in ErrorTypes : OnError(errorType)
    \/ OnEnd

SpecRecognition == InitRecognition /\ [][NextRecognition]_vars

\* C30: once the hook has set isListening to false, no onend or onerror
\* callback starts the recogniser again: while isListening is false the
\* recogniser is started by a call of startListening only
NoRestartUntilStartListening ==
    [][(~isListening /\ recognition # "started" /\ recognition' = "started")
        => recEvent'.call = "startListening"]_vars

\* ---------------------------------------------------------------------------
\* utils/speechSynthesis: the SpeechSynthesisQueue and the synthesizer

MaxUtterances == 5

Terminators == {".", "!", "?"}

\* the first terminator of text at or after i, 0 when there is none
RECURSIVE FirstTerminator(_, _)
FirstTerminator(text, i) ==
    IF i > Len(text) THEN 0
    ELSE IF text[i] \in Terminators THEN i
    ELSE FirstTerminator(text, i + 1)

\* the first index after the run of terminators that starts at j
RECURSIVE RunEnd(_, _)
RunEnd(text, j) ==
    IF j > Len(text) THEN j
    ELSE IF text[j] \in Terminators THEN RunEnd(text, j + 1)
    ELSE j

\* (?:\s|$) at k: the index the match ends at, 0 when it fails
SentenceClose(text, k) ==
    IF k > Len(text) THEN Len(text)
    ELSE IF IsSpace(text[k]) THEN k
    ELSE 0

\* /[^.!?]+[.!?]+(?:\s|$)/ tried at i: the index the match ends at, or 0
SentenceEnd(text, i) ==
    IF text[i] \in Terminators \/ FirstTerminator(text, i) = 0 THEN 0
    ELSE SentenceClose(text, RunEnd(text, FirstTerminator(text, i)))

\* text.match(/.../g): the matches from i on, left to right
RECURSIVE SentenceMatches(_, _)
SentenceMatches(text, i) ==
    IF i > Len(text) THEN <<>>
    ELSE IF SentenceEnd(text, i) = 0 THEN SentenceMatches(text, i + 1)
    ELSE <<SubSeq(text, i, SentenceEnd(text, i))>>
         \o SentenceMatches(text, SentenceEnd(text, i) + 1)

\* the text after the joined length of the matches is one more sentence
WithRemaining(text, sentences, lastIndex) ==
    IF lastIndex < Len(text) /\ Trim(SubSeq(text, lastIndex + 1, Len(text))) # <<>>
    THEN Append(sentences, SubSeq(text, lastIndex + 1, Len(text)))
    ELSE sentences

SplitIntoSentences(text) ==
    WithRemaining(text, SentenceMatches(text, 1),
                  Len(Concatenation(SentenceMatches(text, 1))))

\* the sentences that are spoken: the trimmed ones that are not blank
SpokenSentences(text) ==
    SelectSeq([i \in 1..Len(SplitIntoSentences(text)) |->
                   Trim(SplitIntoSentences(text)[i])],
              LAMBDA sentence : sentence # <<>>)

\* new SpeechSynthesisUtterance for each sentence, numbered as constructed
Utterances(sentences, count) ==
    [i \in 1..Len(sentences) |-> [id |-> count + i, text |-> sentences[i]]]

\* what the answers read aloud are
SpeechTexts ==
    {<<"H", "i", ".">>, <<"A", ".", " ", "B", ".">>, <<"A", ".", " ", "B", "!", " ", "C">>}

\* what the speech queue leaves alone
speechFixed == <<srvVars, cliVars, viewVars, parseVars, histVars, sessionVars, voiceVars>>

\* speak(text), once the ongoing speech is cancelled: queue is the queue and
\* speaking the flag after the cancelling, held what the synthesizer holds
SpeakSentences(text, queue, speaking, held) ==
    /\ utteranceQueue' = queue \o Utterances(SpokenSentences(text), nextUtterance)
    /\ nextUtterance' = nextUtterance + Len(SpokenSentences(text))
    /\ IF ~speaking /\ utteranceQueue' # <<>>
       THEN /\ isSpeaking' = TRUE
            /\ currentUtterance' = Head(utteranceQueue')
            /\ synth' = Append(held, Head(utteranceQueue'))
            /\ handed' = <<Head(utteranceQueue')>>
       ELSE /\ isSpeaking' = speaking
            /\ synth' = held
            /\ handed' = <<>>
            /\ UNCHANGED currentUtterance

\* speak(text): synth.cancel() when the synthesizer is speaking, and the
\* events of the utterances it held are delivered later
Speak(text) ==
    /\ nextUtterance + Len(SpokenSentences(text)) <= MaxUtterances
    /\ IF synth # <<>>
       THEN /\ pendingCallbacks' = pendingCallbacks \o synth
            /\ SpeakSentences(text, <<>>, FALSE, <<>>)
       ELSE /\ UNCHANGED pendingCallbacks
            /\ SpeakSentences(text, utteranceQueue, isSpeaking, synth)
    /\ sentenceBuffer' = IF synth # <<>> THEN <<>> ELSE sentenceBuffer
    /\ UNCHANGED speechFixed

\* cancel(), on the variables of the queue
CancelCall ==
    /\ pendingCallbacks' = pendingCallbacks \o synth
    /\ synth' = <<>>
    /\ isSpeaking' = FALSE
    /\ utteranceQueue' = <<>>
    /\ currentUtterance' = NoUtterance
    /\ sentenceBuffer' = <<>>
    /\ UNCHANGED <<handed, nextUtterance>>

Cancel == CancelCall /\ UNCHANGED speechFixed

\* utterance.onend and utterance.onerror: the head of the queue is shifted
\* away and the next utterance is handed to the synthesizer; held is what the
\* synthesizer holds when the callback runs
ShiftAndSpeakNext(held) ==
    /\ utteranceQueue' = IF utteranceQueue = <<>> THEN <<>> ELSE Tail(utteranceQueue)
    /\ IF utteranceQueue' # <<>>
       THEN /\ synth' = Append(held, Head(utteranceQueue'))
            /\ handed' = Append(handed, Head(utteranceQueue'))
            /\ UNCHANGED <<isSpeaking, currentUtterance>>
       ELSE /\ synth' = held
            /\ isSpeaking' = FALSE
            /\ currentUtterance' = NoUtterance
            /\ UNCHANGED handed
    /\ UNCHANGED <<sentenceBuffer, nextUtterance>>

\* the synthesizer finishes the utterance it speaks: its onend runs
UtteranceEnds ==
    /\ synth # <<>>
    /\ ShiftAndSpeakNext(Tail(synth))
    /\ UNCHANGED <<pendingCallbacks, speechFixed>>

\* the event of a cancelled utterance is delivered: its onerror runs
CancelledCallback ==
    /\ pendingCallbacks # <<>>
    /\ pendingCallbacks' = Tail(pendingCallbacks)
    /\ ShiftAndSpeakNext(synth)
    /\ UNCHANGED speechFixed

InitSpeech == InitSession

NextSpeech ==
    \/ \E text \in SpeechTexts : Speak(text)
    \/ Cancel
    \/ UtteranceEnds
    \/ CancelledCallback

SpecSpeech == InitSpeech /\ [][NextSpeech]_vars

\* the utterances of handed were constructed one after the other
HandedOnceInOrder ==
    \A i \in 1..Len(handed) : handed[i].id = handed[1].id + (i - 1)

\* C29: in every state of the speech queue isSpeaking is true exactly when
\* utteranceQueue is non-empty, the utterance the synthesizer speaks is the
\* head of the queue, and the sentences of the latest speak() are handed to
\* the synthesizer once each and in order
SpeechQueueConsistent ==
    /\ isSpeaking <=> utteranceQueue # <<>>
    /\ synth # <<>> => (utteranceQueue # <<>> /\ Head(synth) = Head(utteranceQueue))
    /\ HandedOnceInOrder

\* ---------------------------------------------------------------------------
\* ChatInterface: the microphone button, the form and the turns in flight

MaxTimeouts == 2

MaxTurns == 3

\* what the microphone and the form leave alone
micFixed == <<srvVars, cliPc, props, closure, mounted, viewVars, parseVars, histVars,
              sessionVars>>

\* handleMicPress; the button is disabled while a turn is loading
HandleMicPress ==
    /\ ~isLoading
    /\ CancelCall
    /\ StartListeningCall
    /\ UNCHANGED <<input, messages, isLoading, timeouts, inFlight, micFixed>>

\* recognition.onresult under ChatInterface: the effect on [voiceText,
\* isListening] copies the text into the input field
VoiceResult(transcript) ==
    /\ OnResultCall(transcript)
    /\ input' = IF voiceText' # <<>> /\ isListening THEN voiceText' ELSE input
    /\ UNCHANGED <<messages, isLoading, timeouts, inFlight, speechVars, micFixed>>

\* handleMicRelease: the callback of setTimeout keeps the voiceText and the
\* handleVoiceSubmit, hence the isLoading, of the render it was made in
HandleMicRelease ==
    /\ ~isLoading
    /\ Len(timeouts) < MaxTimeouts
    /\ StopListeningCall
    /\ timeouts' = Append(timeouts, [voiceText |-> voiceText, isLoading |-> isLoading])
    /\ UNCHANGED <<input, messages, isLoading, inFlight, speechVars, micFixed>>

\* handleVoiceSubmit and handleFormSubmit up to the fetch, as the render that
\* saw loading runs them: the request is sent unless the guard returns
SubmitTurn(text, loading) ==
    IF props.isEnabled /\ Trim(text) # <<>> /\ ~loading
    THEN /\ messages' = Append(messages, [id |-> UserMessageId, role |-> "user",
                                          content |-> Trim(text)])
         /\ isLoading' = TRUE
         /\ inFlight' = Append(inFlight, Trim(text))
    ELSE UNCHANGED <<messages, isLoading, inFlight>>

\* the 500 ms are over: the callback of the oldest setTimeout runs
TimeoutFires ==
    /\ timeouts # <<>>
    /\ timeouts' = Tail(timeouts)
    /\ IF Trim(Head(timeouts).voiceText) # <<>>
       THEN /\ Len(messages) < MaxTurns
            /\ SubmitTurn(Head(timeouts).voiceText, Head(timeouts).isLoading)
            /\ voiceText' = <<>>
            /\ input' = <<>>
       ELSE UNCHANGED <<messages, isLoading, inFlight, voiceText, input>>
    /\ UNCHANGED <<isListening, error, shouldBeListening, recognition, recEvent,
                   speechVars, micFixed>>

\* the input field; it is disabled while loading or listening
TypeInput(text) ==
    /\ ~isLoading
    /\ ~isListening
    /\ input' = text
    /\ UNCHANGED <<messages, isLoading, voiceVars, speechVars, micFixed>>

\* handleFormSubmit of the render on the screen
HandleFormSubmit ==
    /\ Trim(input) # <<>>
    /\ ~isLoading
    /\ Len(messages) < MaxTurns
    /\ SubmitTurn(input, isLoading)
    /\ input' = <<>>
    /\ UNCHANGED <<hookVars, timeouts, speechVars, micFixed>>

\* a turn in flight ends: the finally block of its handler
TurnEnds ==
    /\ inFlight # <<>>
    /\ \E i \in 1..Len(inFlight) :
         inFlight' = SubSeq(inFlight, 1, i - 1) \o SubSeq(inFlight, i + 1, Len(inFlight))
    /\ isLoading' = FALSE
    /\ UNCHANGED <<input, messages, hookVars, timeouts, speechVars, micFixed>>

InitVoice == InitSession

NextVoice ==
    \/ HandleMicPress
    \/ \E transcript \in Transcripts : VoiceResult(transcript)
    \/ HandleMicRelease
    \/ TimeoutFires
    \/ \E text \in Transcripts : TypeInput(text)
    \/ HandleFormSubmit
    \/ TurnEnds
    \/ OnEnd

SpecVoice == InitVoice /\ [][NextVoice]_vars

\* C27: at most one chat turn is in flight per ChatInterface: a form submit
\* or a voice submit, the delayed one of handleMicRelease included, sends no
\* request while a turn is loading
AtMostOneTurnInFlight == Len(inFlight) <= 1
====
